---- MODULE Spec2Model ----
(***************************************************************************)
(* Model of the product curation service (curation-service/app):           *)
(* scoring.py (ProductScorer), llm_client.py (LLMClient) and main.py       *)
(* (the /curate handler).                                                  *)
(*                                                                         *)
(* Numbers: every float of the program (scores, weights, confidence) is    *)
(* held as an integer number of thousandths, so 0.8 is 800 and 1.0 is 1000.*)
(* Sums and products are exact here; the program forms them in binary      *)
(* floating point.                                                         *)
(* Strings: Python strings are TLA+ strings over a fixed vocabulary;       *)
(* str.lower(), the `in` substring test and string ordering are tables     *)
(* over that vocabulary.  Python None is NoneV for Optional[str] fields.   *)
(* Object references: the catalog is the sequence `products`; every Python *)
(* list of Product objects is a sequence of indices into it, so that an    *)
(* in-place write to a Product is seen through every list that holds it.   *)
(***************************************************************************)
EXTENDS Integers, Sequences, FiniteSets, TLC

\* ------------------------------------------------------------------------
\* Bounds of the model
\* ------------------------------------------------------------------------
MaxLen == 4          \* longest catalog drawn for the scoring/selection runs
MaxTopK == 3         \* largest small preselection width drawn (10 is drawn too)

\* ------------------------------------------------------------------------
\* Python values
\* ------------------------------------------------------------------------
NoneV == "None"

Truthy(s) == s # NoneV /\ s # ""

\* Python `a or b` on Optional[str]
OrElse(a, b) == IF Truthy(a) THEN a ELSE b

LowerTable ==
  { <<"Acme", "acme">>, <<"ACME", "acme">>, <<"Zed", "zed">>,
    <<"Spirits", "spirits">>, <<"Wine", "wine">>, <<"Red Wine", "red wine">>,
    <<"Beer", "beer">>, <<"Craft Beer", "craft beer">>,
    <<"Champagne", "champagne">>, <<"Sparkling", "sparkling">>,
    <<"Liquor", "liquor">>, <<"Glassware", "glassware">>,
    <<"Sydney", "sydney">>, <<"SYDNEY", "sydney">>,
    <<"Melbourne", "melbourne">>, <<"Brisbane", "brisbane">>,
    <<"Adelaide", "adelaide">>, <<"Cairns", "cairns">>, <<"Perth", "perth">>,
    <<"NSW", "nsw">>, <<"VIC", "vic">>,
    <<"Hunter Valley, NSW", "hunter valley, nsw">>,
    <<"Australia", "australia">>, <<"France", "france">>,
    <<"South Australia", "south australia">>,
    <<"Platinum", "platinum">>, <<"GOLD", "gold">>,
    <<"Restaurant", "restaurant">>, <<"Fine Dining", "fine dining">>,
    <<"Bar", "bar">>, <<"Pub", "pub">>, <<"Unknown", "unknown">> }

\* str.lower()
Lower(s) ==
  IF \E p \in LowerTable : p[1] = s
    THEN (CHOOSE p \in LowerTable : p[1] = s)[2]
    ELSE s

\* proper substrings among the lower-cased vocabulary
SubstrTable ==
  { <<"wine", "red wine">>, <<"beer", "craft beer">>, <<"spirit", "spirits">>,
    <<"nsw", "hunter valley, nsw">>, <<"australia", "south australia">> }

\* Python `needle in hay` on two lower-cased strings
Contains(needle, hay) ==
  needle = "" \/ needle = hay \/ <<needle, hay>> \in SubstrTable

\* code-point order of the strings used as supplier names
StrRank(s) ==
  CASE s = "" -> 0
    [] s = "Alpha" -> 1
    [] s = "Beta" -> 2
    [] s = "Gamma" -> 3
    [] OTHER -> 4

\* ------------------------------------------------------------------------
\* models.py
\* ------------------------------------------------------------------------
\* Product(id=..., name=...) with every optional field at its default.
\* The per-city flags are Optional[int]; they are only ever tested with
\* `== 1`, for which None and 0 agree, so None is held as 0.
DefaultProduct ==
  [ id |-> "p0", sku |-> NoneV, supplier |-> NoneV, brand |-> NoneV,
    country |-> NoneV, region |-> NoneV, visibility |-> NoneV,
    category_level_1 |-> NoneV, category_level_2 |-> NoneV,
    category_level_3 |-> NoneV,
    sold_at_cairns |-> 0, sold_at_brisbane |-> 0, sold_at_adelaide |-> 0,
    sold_at_melbourne |-> 0, sold_at_sydney |-> 0,
    origin |-> NoneV, supplier_tier |-> NoneV,
    is_bundle |-> FALSE,
    locality_score |-> 0, category_fitness |-> 0,
    supplier_boost |-> 0, composite_score |-> 0 ]

\* Location(); `present` is FALSE when Profile.location is None
NoLocation ==
  [ present |-> FALSE, city |-> NoneV, state |-> NoneV, country |-> NoneV ]

\* Profile(venueType=...) with the optional fields at their defaults; city,
\* state and country are the extra (flat) fields allowed by Config.extra
DefaultProfile ==
  [ tier |-> NoneV, location |-> NoLocation, venueType |-> "restaurant",
    cuisineStyle |-> NoneV, city |-> NoneV, state |-> NoneV,
    country |-> NoneV ]

\* ------------------------------------------------------------------------
\* scoring.py : tables of ProductScorer.__init__
\* ------------------------------------------------------------------------
Categories == {"wine", "champagne", "sparkling", "spirits", "beer", "default"}

venue_weights ==
  [ v \in {"restaurant", "fine dining", "bistro", "bar", "cafe"} |->
      CASE v = "restaurant" ->
             [c \in Categories |->
                CASE c = "wine" -> 1000 [] c = "champagne" -> 800
                  [] c = "sparkling" -> 800 [] c = "spirits" -> 300
                  [] c = "beer" -> 200 [] OTHER -> 500]
        [] v = "fine dining" ->
             [c \in Categories |->
                CASE c = "wine" -> 1000 [] c = "champagne" -> 1000
                  [] c = "sparkling" -> 900 [] c = "spirits" -> 400
                  [] c = "beer" -> 100 [] OTHER -> 600]
        [] v = "bistro" ->
             [c \in Categories |->
                CASE c = "wine" -> 900 [] c = "champagne" -> 600
                  [] c = "sparkling" -> 700 [] c = "spirits" -> 400
                  [] c = "beer" -> 300 [] OTHER -> 500]
        [] v = "bar" ->
             [c \in Categories |->
                CASE c = "wine" -> 600 [] c = "champagne" -> 400
                  [] c = "sparkling" -> 500 [] c = "spirits" -> 900
                  [] c = "beer" -> 800 [] OTHER -> 700]
        [] OTHER ->
             [c \in Categories |->
                CASE c = "wine" -> 300 [] c = "champagne" -> 200
                  [] c = "sparkling" -> 300 [] c = "spirits" -> 200
                  [] c = "beer" -> 400 [] OTHER -> 400] ]

supplier_weights ==
  [ t \in {"platinum", "gold", "silver", "bronze", "default"} |->
      CASE t = "platinum" -> 1000 [] t = "gold" -> 800 [] t = "silver" -> 600
        [] t = "bronze" -> 400 [] OTHER -> 500 ]

Min(a, b) == IF a <= b THEN a ELSE b

\* ------------------------------------------------------------------------
\* scoring.py : the four scores
\* ------------------------------------------------------------------------
\* ProductScorer._get_location_from_profile
ScorerLocation(profile) ==
  IF profile.location.present
    THEN [ city |-> profile.location.city, state |-> profile.location.state,
           country |-> profile.location.country ]
    ELSE [ city |-> profile.city, state |-> profile.state,
           country |-> profile.country ]

\* the if/elif chain on the resolved city
CityBonus(product, city_lower) ==
  IF city_lower = "sydney" /\ product.sold_at_sydney = 1 THEN 300
  ELSE IF city_lower = "melbourne" /\ product.sold_at_melbourne = 1 THEN 300
  ELSE IF city_lower = "brisbane" /\ product.sold_at_brisbane = 1 THEN 300
  ELSE IF city_lower = "adelaide" /\ product.sold_at_adelaide = 1 THEN 300
  ELSE IF city_lower = "cairns" /\ product.sold_at_cairns = 1 THEN 300
  ELSE 0

\* the four checks as one if/elif chain: the first that applies alone
calculate_locality_score_exclusive(product, profile) ==
  LET location == ScorerLocation(profile)
      c == IF Truthy(location.city)
             THEN CityBonus(product, Lower(location.city)) ELSE 0
      s == IF Truthy(location.state) /\ Truthy(product.region)
              /\ Contains(Lower(location.state), Lower(product.region))
             THEN 200 ELSE 0
      k == IF Truthy(location.country) /\ Truthy(product.country)
              /\ Contains(Lower(location.country), Lower(product.country))
             THEN 200 ELSE 0
      o == IF Truthy(product.origin) /\ Truthy(location.country)
              /\ Contains(Lower(location.country), Lower(product.origin))
             THEN 100 ELSE 0
  IN  IF c > 0 THEN c ELSE IF s > 0 THEN s ELSE IF k > 0 THEN k ELSE o

\* ProductScorer._calculate_locality_score
calculate_locality_score(product, profile) ==
  LET location == ScorerLocation(profile)
      c == IF Truthy(location.city)
             THEN CityBonus(product, Lower(location.city)) ELSE 0
      s == IF Truthy(location.state) /\ Truthy(product.region)
              /\ Contains(Lower(location.state), Lower(product.region))
             THEN 200 ELSE 0
      k == IF Truthy(location.country) /\ Truthy(product.country)
              /\ Contains(Lower(location.country), Lower(product.country))
             THEN 200 ELSE 0
      o == IF Truthy(product.origin) /\ Truthy(location.country)
              /\ Contains(Lower(location.country), Lower(product.origin))
             THEN 100 ELSE 0
  IN  Min(c + s + k + o, 1000)

\* the keyword chain applied to one lower-cased category level
ClassifyLevel(category) ==
  IF Contains("wine", category) THEN "wine"
  ELSE IF Contains("champagne", category) THEN "champagne"
  ELSE IF Contains("sparkling", category) THEN "sparkling"
  ELSE IF Contains("spirit", category) THEN "spirits"
  ELSE IF Contains("beer", category) THEN "beer"
  ELSE IF Contains("liquor", category) THEN "spirits"
  ELSE "none"

\* the category read from the first category level alone
extract_category_level1(product) ==
  LET c1 == IF Truthy(product.category_level_1)
              THEN ClassifyLevel(Lower(product.category_level_1)) ELSE "none"
  IN  IF c1 # "none" THEN c1 ELSE "default"

\* ProductScorer._extract_category
extract_category(product) ==
  LET c1 == IF Truthy(product.category_level_1)
              THEN ClassifyLevel(Lower(product.category_level_1)) ELSE "none"
      c2 == IF Truthy(product.category_level_2)
              THEN ClassifyLevel(Lower(product.category_level_2)) ELSE "none"
      c3 == IF Truthy(product.category_level_3)
              THEN ClassifyLevel(Lower(product.category_level_3)) ELSE "none"
  IN  IF c1 # "none" THEN c1
      ELSE IF c2 # "none" THEN c2
      ELSE IF c3 # "none" THEN c3
      ELSE "default"

\* the category fitness without the cap of line 215
calculate_category_fitness_uncapped(product, profile) ==
  LET venue_type == Lower(profile.venueType)
      cuisine_style == Lower(OrElse(profile.cuisineStyle, ""))
      weights == IF venue_type \in DOMAIN venue_weights
                   THEN venue_weights[venue_type]
                   ELSE venue_weights["restaurant"]
      category == extract_category(product)
      base == weights[category]
      f == IF venue_type = "fine dining" /\ cuisine_style = "fine dining"
              /\ category \in {"champagne", "sparkling"}
             THEN 200 ELSE 0
      b == IF product.is_bundle THEN 100 ELSE 0
  IN  base + f + b

\* ProductScorer._calculate_category_fitness
calculate_category_fitness(product, profile) ==
  LET venue_type == Lower(profile.venueType)
      cuisine_style == Lower(OrElse(profile.cuisineStyle, ""))
      weights == IF venue_type \in DOMAIN venue_weights
                   THEN venue_weights[venue_type]
                   ELSE venue_weights["restaurant"]
      category == extract_category(product)
      base == weights[category]
      f == IF venue_type = "fine dining" /\ cuisine_style = "fine dining"
              /\ category \in {"champagne", "sparkling"}
             THEN 200 ELSE 0
      b == IF product.is_bundle THEN 100 ELSE 0
  IN  Min(base + f + b, 1000)

calculate_supplier_boost(product) ==
  IF ~Truthy(product.supplier_tier)
    THEN supplier_weights["default"]
    ELSE LET tier == Lower(product.supplier_tier)
         IN  IF tier \in DOMAIN supplier_weights
               THEN supplier_weights[tier]
               ELSE supplier_weights["default"]

\* the composite score with a bundle term of 0.1 * 1.0
calculate_composite_score_bundle_one(product) ==
  Min( ( 300 * product.locality_score + 400 * product.category_fitness
         + 200 * product.supplier_boost
         + 100 * (IF product.is_bundle THEN 1000 ELSE 0) ) \div 1000,
       1000 )

\* weights 0.3, 0.4, 0.2 and 0.1 applied to thousandths
calculate_composite_score(product) ==
  Min( ( 300 * product.locality_score + 400 * product.category_fitness
         + 200 * product.supplier_boost
         + 100 * (IF product.is_bundle THEN 100 ELSE 0) ) \div 1000,
       1000 )

\* the composite score taken from the score fields as they were before
ScoreOneStale(product, profile) ==
  [ product EXCEPT
      !.locality_score = calculate_locality_score(product, profile),
      !.category_fitness = calculate_category_fitness(product, profile),
      !.supplier_boost = calculate_supplier_boost(product),
      !.composite_score = calculate_composite_score(product) ]

\* the body of `for product in visible_products:` for one product
ScoreOne(product, profile) ==
  LET p1 == [product EXCEPT
               !.locality_score = calculate_locality_score(product, profile),
               !.category_fitness = calculate_category_fitness(product, profile),
               !.supplier_boost = calculate_supplier_boost(product)]
  IN  [p1 EXCEPT !.composite_score = calculate_composite_score(p1)]

\* ------------------------------------------------------------------------
\* scoring.py : score_products
\* ------------------------------------------------------------------------
\* a product without a visibility code is taken as visible too
IsVisibleAlsoMissing(product) == product.visibility \in {"4", NoneV}

\* the test of the list comprehension `if p.visibility == "4"`
IsVisible(product) == product.visibility = "4"

\* indices of the visible products, in catalog order
RECURSIVE VisibleFrom(_, _)
VisibleFrom(prods, i) ==
  IF i > Len(prods) THEN <<>>
  ELSE IF IsVisible(prods[i]) THEN <<i>> \o VisibleFrom(prods, i + 1)
  ELSE VisibleFrom(prods, i + 1)

visible_products(prods) == VisibleFrom(prods, 1)

\* the catalog after the scoring loop: the visible Product objects are
\* written in place, the others are left as they were
\* the scoring loop with a cache: a product that holds a composite score
\* is not scored again
ScoredCatalogCached(prods, profile) ==
  [ i \in DOMAIN prods |->
      IF IsVisible(prods[i]) /\ prods[i].composite_score = 0
        THEN ScoreOne(prods[i], profile) ELSE prods[i] ]

ScoredCatalog(prods, profile) ==
  [ i \in DOMAIN prods |->
      IF IsVisible(prods[i]) THEN ScoreOne(prods[i], profile) ELSE prods[i] ]

\* self.supplier_weights.get(p.supplier_tier or "default", 0): the tier is
\* looked up as written, without lower()
SortWeight(product) ==
  LET t == OrElse(product.supplier_tier, "default")
  IN  IF t \in DOMAIN supplier_weights THEN supplier_weights[t] ELSE 0

\* the key of sorted(): (composite_score, tier weight, supplier or "")
SortKey(product) ==
  << product.composite_score, SortWeight(product),
     StrRank(OrElse(product.supplier, "")) >>

\* the comparison turned round: a > b
KeyLessReversed(a, b) ==
  \/ a[1] > b[1]
  \/ a[1] = b[1] /\ a[2] > b[2]
  \/ a[1] = b[1] /\ a[2] = b[2] /\ a[3] > b[3]

\* tuple comparison a < b
KeyLess(a, b) ==
  \/ a[1] < b[1]
  \/ a[1] = b[1] /\ a[2] < b[2]
  \/ a[1] = b[1] /\ a[2] = b[2] /\ a[3] < b[3]

\* sorted(..., reverse=True) is stable: an element goes in front of the
\* first element whose key is strictly smaller, behind every equal one
RECURSIVE InsertDesc(_, _, _)
InsertDesc(sorted, x, prods) ==
  IF sorted = <<>> THEN <<x>>
  ELSE IF KeyLess(SortKey(prods[Head(sorted)]), SortKey(prods[x]))
         THEN <<x>> \o sorted
         ELSE <<Head(sorted)>> \o InsertDesc(Tail(sorted), x, prods)

RECURSIVE SortedDesc(_, _, _)
SortedDesc(idxs, acc, prods) ==
  IF idxs = <<>> THEN acc
  ELSE SortedDesc(Tail(idxs), InsertDesc(acc, Head(idxs), prods), prods)

\* the list returned by score_products, over the scored catalog
score_products(prods, profile) ==
  LET scoredCat == ScoredCatalog(prods, profile)
  IN  SortedDesc(visible_products(prods), <<>>, scoredCat)

\* ------------------------------------------------------------------------
\* scoring.py : select_candidates
\* ------------------------------------------------------------------------
\* (brand.lower(), category.lower()) with "unknown" for a missing value
DiversityKey(product) ==
  << Lower(OrElse(product.brand, "unknown")),
     Lower(OrElse(product.category_level_1, "unknown")) >>

\* the break test with > for >=
SelectionFullOffByOne(candidates, top_k) == Len(candidates) > top_k

\* `if len(candidates) >= top_k: break`
SelectionFull(candidates, top_k) == Len(candidates) >= top_k

\* the loop `for product in scored_products:` from position k on;
\* seen_combinations is a Python set of keys, and count is the number of
\* its members equal to the product's key
RECURSIVE SelectLoop(_, _, _, _, _, _)
SelectLoop(scored, k, top_k, candidates, seen_combinations, prods) ==
  IF k > Len(scored) THEN candidates
  ELSE IF SelectionFull(candidates, top_k) THEN candidates
  ELSE
    LET product == prods[scored[k]]
        diversity_key == DiversityKey(product)
        count == Cardinality({ c \in seen_combinations :
                                 c[1] = diversity_key[1]
                                 /\ c[2] = diversity_key[2] })
    IN  IF count < 3
          THEN SelectLoop(scored, k + 1, top_k,
                          Append(candidates, scored[k]),
                          seen_combinations \cup {diversity_key}, prods)
          ELSE SelectLoop(scored, k + 1, top_k, candidates,
                          seen_combinations, prods)

select_candidates(scored, top_k, prods) ==
  SelectLoop(scored, 1, top_k, <<>>, {}, prods)

\* ------------------------------------------------------------------------
\* main.py : configuration and helpers of the /curate handler
\* ------------------------------------------------------------------------
DEFAULT_MAX_PRODUCTS == 100

\* `p.sku or p.id`
ProductKey(product) == OrElse(product.sku, product.id)

\* a slice that cuts nothing
TakeAll(seq, n) == seq

\* seq[:n] for n >= 0
Take(seq, n) == SubSeq(seq, 1, Min(n, Len(seq)))

\* [p.sku or p.id for p in idxs]
KeysOf(idxs, prods) == [ k \in 1..Len(idxs) |-> ProductKey(prods[idxs[k]]) ]

\* `request.maxProducts or DEFAULT_MAX_PRODUCTS`; 0 stands for None
EffectiveMax(maxProducts) ==
  IF maxProducts # 0 THEN maxProducts ELSE DEFAULT_MAX_PRODUCTS

\* a resolution that prefers the flat fields to the nested location
MainLocationFlatFirst(profile) ==
  IF Truthy(profile.city) \/ ~profile.location.present
    THEN [ city |-> profile.city, state |-> profile.state,
           country |-> profile.country ]
    ELSE [ city |-> profile.location.city, state |-> profile.location.state,
           country |-> profile.location.country ]

\* main._get_location_from_profile
MainLocation(profile) ==
  IF profile.location.present
    THEN [ city |-> profile.location.city, state |-> profile.location.state,
           country |-> profile.location.country ]
    ELSE [ city |-> profile.city, state |-> profile.state,
           country |-> profile.country ]

\* the test inside the loop of _get_local_favorite_products
IsLocalFavorite(product, profile) ==
  LET location == MainLocation(profile)
  IN  /\ Truthy(location.city)
      /\ LET city_lower == Lower(location.city)
         IN  \/ city_lower = "sydney" /\ product.sold_at_sydney = 1
             \/ city_lower = "melbourne" /\ product.sold_at_melbourne = 1
             \/ city_lower = "brisbane" /\ product.sold_at_brisbane = 1
             \/ city_lower = "adelaide" /\ product.sold_at_adelaide = 1
             \/ city_lower = "cairns" /\ product.sold_at_cairns = 1

\* every candidate taken as a local favourite
get_local_favorite_products_all(candidates, profile, prods) == candidates

\* main._get_local_favorite_products
get_local_favorite_products(candidates, profile, prods) ==
  SelectSeq(candidates, LAMBDA i : IsLocalFavorite(prods[i], profile))

\* a line of generated text: a template name, a string and a number
Line(k, str, n) == [ k |-> k, s |-> str, n |-> n ]

\* main._generate_rule_based_reasoning
generate_rule_based_reasoning(profile, idxs, prods) ==
  LET location == MainLocation(profile)
      venue_type == Lower(profile.venueType)
      bundle_count == Len(SelectSeq(idxs, LAMBDA i : prods[i].is_bundle))
      platinum_count ==
        Len(SelectSeq(idxs, LAMBDA i : prods[i].supplier_tier = "platinum"))
  IN  << Line("curated_for_venue", profile.venueType, 0) >>
      \o (IF Truthy(location.city)
            THEN << Line("prioritized_city", location.city, 0) >> ELSE <<>>)
      \o (IF venue_type \in {"restaurant", "fine dining"}
            THEN << Line("emphasized_wine", "", 0) >>
            ELSE IF venue_type = "bar"
                   THEN << Line("focused_spirits_beer", "", 0) >> ELSE <<>>)
      \o (IF bundle_count > 0
            THEN << Line("included_bundles", "", bundle_count) >> ELSE <<>>)
      \o (IF platinum_count > 0
            THEN << Line("featured_platinum", "", platinum_count) >>
            ELSE <<>>)

\* the first key, in insertion order, with the largest count:
\* max(categories.items(), key=lambda x: x[1])
RECURSIVE TopCategoryFrom(_, _, _, _)
TopCategoryFrom(idxs, k, best, prods) ==
  IF k > Len(idxs) THEN best
  ELSE
    LET cat == OrElse(prods[idxs[k]].category_level_1, "Unknown")
        n == Len(SelectSeq(idxs, LAMBDA i :
                 OrElse(prods[i].category_level_1, "Unknown") = cat))
    IN  TopCategoryFrom(idxs, k + 1,
                        IF n > best.n THEN Line("top_category", cat, n)
                        ELSE best, prods)

\* main._generate_business_insights
generate_business_insights(profile, idxs, prods) ==
  LET top == TopCategoryFrom(idxs, 1, Line("top_category", "Unknown", 0), prods)
      suppliers == { prods[idxs[k]].supplier : k \in 1..Len(idxs) }
                     \ {NoneV, ""}
      bundles == Len(SelectSeq(idxs, LAMBDA i : prods[i].is_bundle))
      \* bundle_ratio in thousandths; `> 0.1` is compared on the exact ratio
      ratio == IF Len(idxs) > 0 THEN (bundles * 1000) \div Len(idxs) ELSE 0
  IN  << top, Line("suppliers", "", Cardinality(suppliers)) >>
      \o (IF Len(idxs) > 0 /\ bundles * 10 > Len(idxs)
            THEN << Line("high_bundle_ratio", "", ratio) >> ELSE <<>>)

\* main._generate_next_steps
generate_next_steps(profile) ==
  << Line("review_list", "", 0), Line("contact_suppliers", "", 0) >>
  \o (IF Lower(profile.venueType) \in {"restaurant", "fine dining"}
        THEN << Line("wine_pairing", "", 0), Line("staff_training", "", 0) >>
        ELSE <<>>)
  \o (IF profile.tier = "bronze"
        THEN << Line("explore_upgrade", "", 0) >> ELSE <<>>)
  \o << Line("reordering_schedule", "", 0), Line("monitor_preferences", "", 0) >>

\* a confidence value: a float in thousandths, or NaN
Conf(v) == [ nan |-> FALSE, v |-> v ]

ConfNaN == [ nan |-> TRUE, v |-> 0 ]

\* the dict response_data of lines 143-162; lists of Product objects are
\* lists of catalog indices
BaseResponse(profile, candidates, max_products, now, prods) ==
  LET curated_products == Take(candidates, max_products)
      platinum_products ==
        Take(SelectSeq(candidates,
                       LAMBDA i : prods[i].supplier_tier = "platinum"), 10)
      bundled_products ==
        Take(SelectSeq(candidates, LAMBDA i : prods[i].is_bundle), 10)
      local_favorite_products ==
        Take(get_local_favorite_products(candidates, profile, prods), 10)
  IN  [ curatedProductIds |-> KeysOf(curated_products, prods),
        curatedProducts |-> curated_products,
        reasoning |->
          generate_rule_based_reasoning(profile, curated_products, prods),
        confidence |-> Conf(800),
        platinumSupplierProducts |-> KeysOf(platinum_products, prods),
        platinumProducts |-> platinum_products,
        bundledPacks |-> KeysOf(bundled_products, prods),
        bundledProducts |-> bundled_products,
        localFavorites |-> KeysOf(local_favorite_products, prods),
        localFavoriteProducts |-> local_favorite_products,
        businessInsights |->
          generate_business_insights(profile, candidates, prods),
        nextSteps |-> generate_next_steps(profile),
        generatedAt |-> now ]

\* ------------------------------------------------------------------------
\* llm_client.py
\* ------------------------------------------------------------------------
\* A value of the decoded JSON object: tag "ok" (present, of the expected
\* type), "missing" (key absent) or "wrong" (present, of another type); the
\* confidence may also be "nan" (json.loads reads NaN as a float).
Field(tag, v) == [ tag |-> tag, v |-> v ]

\* Optional[LLMResponse]: none is TRUE for Python None
NoResponse ==
  [ none |-> TRUE, curatedProductIds |-> <<>>, reasoning |-> <<>>,
    confidence |-> Conf(0), platinumSupplierProducts |-> <<>>,
    bundledPacks |-> <<>>, localFavorites |-> <<>>,
    businessInsights |-> <<>>, nextSteps |-> <<>> ]

\* LLMClient._call_llm_api: the decoded body on status 200, else None
\* (a non-200 status, or an exception of the HTTP client)
call_llm_api(reply) ==
  IF reply.status = "200"
    THEN [ none |-> FALSE, body |-> reply.body ]
    ELSE [ none |-> TRUE, body |-> reply.body ]

\* data.get(key, []) handed to a List[str] field of LLMResponse
OptionalList(f) == IF f.tag = "missing" THEN <<>> ELSE f.v

\* the confidence taken as the gateway gave it
ClampConfidenceNone(c) ==
  IF c.tag = "nan" THEN ConfNaN ELSE Conf(c.v)

\* lines 221-224
ClampConfidence(c) ==
  IF c.tag = "nan" THEN ConfNaN
  ELSE IF c.v < 0 \/ c.v > 1000
         THEN Conf(IF c.v < 0 THEN 0 ELSE Min(1000, c.v))
         ELSE Conf(c.v)

\* a parse without the checks of lines 200-218: an absent or ill-typed
\* field is read as empty, or as 0.5 for the confidence
parse_llm_response_unchecked(body, max_products) ==
  IF body.kind \in {"no_choices", "empty_content", "not_json"}
    THEN NoResponse
  ELSE
    LET data == body.data
        ListOf(f) == IF f.tag = "ok" THEN f.v ELSE <<>>
    IN  [ none |-> FALSE,
          curatedProductIds |-> Take(ListOf(data.curatedProductIds), max_products),
          reasoning |-> ListOf(data.reasoning),
          confidence |-> IF data.confidence.tag \in {"ok", "nan"}
                           THEN ClampConfidence(data.confidence)
                           ELSE Conf(500),
          platinumSupplierProducts |-> ListOf(data.platinumSupplierProducts),
          bundledPacks |-> ListOf(data.bundledPacks),
          localFavorites |-> ListOf(data.localFavorites),
          businessInsights |-> ListOf(data.businessInsights),
          nextSteps |-> ListOf(data.nextSteps) ]

\* LLMClient._parse_llm_response
parse_llm_response(body, max_products) ==
  IF body.kind \in {"no_choices", "empty_content", "not_json"}
    THEN NoResponse
  ELSE
    LET data == body.data
    IN  IF \E f \in {"curatedProductIds", "reasoning", "confidence"} :
               data[f].tag = "missing"
          THEN NoResponse
        ELSE IF data.curatedProductIds.tag = "wrong" THEN NoResponse
        ELSE IF data.reasoning.tag = "wrong" THEN NoResponse
        ELSE IF data.confidence.tag = "wrong" THEN NoResponse
        \* LLMResponse(...) raises on a list field of another type
        ELSE IF \E f \in {"platinumSupplierProducts", "bundledPacks",
                          "localFavorites", "businessInsights", "nextSteps"} :
                    data[f].tag = "wrong"
          THEN NoResponse
        ELSE
          [ none |-> FALSE,
            curatedProductIds |-> Take(data.curatedProductIds.v, max_products),
            reasoning |-> data.reasoning.v,
            confidence |-> ClampConfidence(data.confidence),
            platinumSupplierProducts |->
              OptionalList(data.platinumSupplierProducts),
            bundledPacks |-> OptionalList(data.bundledPacks),
            localFavorites |-> OptionalList(data.localFavorites),
            businessInsights |-> OptionalList(data.businessInsights),
            nextSteps |-> OptionalList(data.nextSteps) ]

\* a failed call answered with an empty response instead of None
finalize_candidates_empty(reply, max_products) ==
  LET response == call_llm_api(reply)
  IN  IF ~response.none
        THEN parse_llm_response(response.body, max_products)
        ELSE [NoResponse EXCEPT !.none = FALSE]

\* LLMClient.finalize_candidates
finalize_candidates(reply, max_products) ==
  LET response == call_llm_api(reply)
  IN  IF ~response.none
        THEN parse_llm_response(response.body, max_products)
        ELSE NoResponse

\* ------------------------------------------------------------------------
\* main.py : the merge of lines 174-195
\* ------------------------------------------------------------------------
\* the candidates named by the gateway, in the order of the candidates
map_skus_in_candidate_order(skus, candidates, prods) ==
  SelectSeq(candidates,
            LAMBDA i : \E k \in 1..Len(skus) : skus[k] = ProductKey(prods[i]))

\* main._map_skus_to_products: the dict keeps the last candidate of a key
\* the lookup made in the whole catalog instead of the candidates
map_skus_in_catalog(skus, candidates, prods) ==
  LET Has(sku) == \E i \in DOMAIN prods : ProductKey(prods[i]) = sku
      Last(sku) == CHOOSE i \in DOMAIN prods :
                     /\ ProductKey(prods[i]) = sku
                     /\ \A j \in (i + 1)..Len(prods) :
                          ProductKey(prods[j]) # sku
      found == SelectSeq(skus, Has)
  IN  [ k \in 1..Len(found) |-> Last(found[k]) ]

map_skus_to_products(skus, candidates, prods) ==
  LET Has(sku) == \E k \in 1..Len(candidates) :
                      ProductKey(prods[candidates[k]]) = sku
      Last(sku) == CHOOSE k \in 1..Len(candidates) :
                     /\ ProductKey(prods[candidates[k]]) = sku
                     /\ \A j \in (k + 1)..Len(candidates) :
                          ProductKey(prods[candidates[j]]) # sku
      found == SelectSeq(skus, Has)
  IN  [ k \in 1..Len(found) |-> candidates[Last(found[k])] ]

\* an update that leaves the insights and next steps of the base result
MergedKeepingInsights(response_data, llm_response, candidates, max_products, prods) ==
  [ response_data EXCEPT
      !.curatedProductIds = Take(llm_response.curatedProductIds, max_products),
      !.curatedProducts =
         Take(map_skus_to_products(llm_response.curatedProductIds,
                                   candidates, prods), max_products),
      !.reasoning = llm_response.reasoning,
      !.confidence = llm_response.confidence,
      !.platinumSupplierProducts = llm_response.platinumSupplierProducts,
      !.platinumProducts =
         map_skus_to_products(llm_response.platinumSupplierProducts,
                              candidates, prods),
      !.bundledPacks = llm_response.bundledPacks,
      !.bundledProducts =
         map_skus_to_products(llm_response.bundledPacks, candidates, prods),
      !.localFavorites = llm_response.localFavorites,
      !.localFavoriteProducts =
         map_skus_to_products(llm_response.localFavorites, candidates, prods) ]

\* response_data.update({...})
Merged(response_data, llm_response, candidates, max_products, prods) ==
  [ response_data EXCEPT
      !.curatedProductIds = Take(llm_response.curatedProductIds, max_products),
      !.curatedProducts =
         Take(map_skus_to_products(llm_response.curatedProductIds,
                                   candidates, prods), max_products),
      !.reasoning = llm_response.reasoning,
      !.confidence = llm_response.confidence,
      !.platinumSupplierProducts = llm_response.platinumSupplierProducts,
      !.platinumProducts =
         map_skus_to_products(llm_response.platinumSupplierProducts,
                              candidates, prods),
      !.bundledPacks = llm_response.bundledPacks,
      !.bundledProducts =
         map_skus_to_products(llm_response.bundledPacks, candidates, prods),
      !.localFavorites = llm_response.localFavorites,
      !.localFavoriteProducts =
         map_skus_to_products(llm_response.localFavorites, candidates, prods),
      !.businessInsights = llm_response.businessInsights,
      !.nextSteps = llm_response.nextSteps ]

\* a failed call keeps the base result but lowers its confidence
ApplyGatewayLowered(response_data, llm_response, candidates, max_products, prods) ==
  IF ~llm_response.none
    THEN Merged(response_data, llm_response, candidates, max_products, prods)
    ELSE [ response_data EXCEPT !.confidence = Conf(500) ]

\* lines 174-198: response_data after the gateway call has returned
ApplyGateway(response_data, llm_response, candidates, max_products, prods) ==
  IF ~llm_response.none
    THEN Merged(response_data, llm_response, candidates, max_products, prods)
    ELSE response_data

\* ------------------------------------------------------------------------
\* Inputs drawn by the model
\* ------------------------------------------------------------------------
NumReqs == 2         \* curate requests in flight

Reqs == 1..NumReqs

Prod(id, sku, visibility, brand, category, supplier, tier, sydney) ==
  [ DefaultProduct EXCEPT
      !.id = id, !.sku = sku, !.visibility = visibility, !.brand = brand,
      !.category_level_1 = category, !.supplier = supplier,
      !.supplier_tier = tier, !.sold_at_sydney = sydney ]

A1 == Prod("a1", "S1", "4", "Acme", "Spirits", "Alpha", "platinum", 1)
A2 == Prod("a2", NoneV, "4", "ACME", "spirits", "Beta", "gold", 0)
A3 == Prod("a3", "S3", "4", "Acme", "Spirits", "Beta", "silver", 0)
A4 == Prod("a4", "S4", "4", "acme", "Spirits", "Gamma", "bronze", 0)
H1 == Prod("h1", "S5", "1", "Zed", "Wine", "Alpha", "platinum", 1)
N1 == Prod("n1", NoneV, NoneV, NoneV, NoneV, NoneV, NoneV, 0)
U1 == [ Prod("u1", "", "4", NoneV, NoneV, NoneV, NoneV, 0) EXCEPT
          !.is_bundle = TRUE, !.sold_at_melbourne = 1 ]

ProductPool == { A1, A2, A3, A4, H1, N1, U1 }

\* catalogs of the scoring and selection runs: the sequences of distinct
\* pool products of length at most MaxLen
PoolCatalogs ==
  { c \in UNION { [1..n -> ProductPool] : n \in 0..MaxLen } :
      \A i, j \in DOMAIN c : i # j => c[i] # c[j] }

\* catalogs of the request runs
RequestCatalogs == { <<>>, <<A2, H1, A1>>, <<U1, A1, A3, A4>> }

ProfSydney ==
  [ DefaultProfile EXCEPT
      !.tier = "bronze", !.venueType = "restaurant",
      !.cuisineStyle = "fine dining",
      !.location = [ present |-> TRUE, city |-> "Sydney", state |-> "NSW",
                     country |-> "Australia" ] ]

ProfBarFlat ==
  [ DefaultProfile EXCEPT !.venueType = "Bar", !.city = "Melbourne" ]

ProfCafe == [ DefaultProfile EXCEPT !.venueType = "cafe" ]

RequestProfiles == { ProfSydney, ProfBarFlat }

ScoreProfiles == { ProfSydney, ProfBarFlat, ProfCafe }

\* CurateRequest.maxProducts; 0 stands for None
MaxProductsValues == { 0, 1 }

TopKValues == (0..MaxTopK) \cup {10}

\* preselection widths of the request runs: one that cuts the ranked list
\* and the default of main.py, which does not
RequestTopK == { 2, 250 }

\* products of the ranking runs: a platinum wine sold in Sydney, a bronze
\* beer that is not, three champagnes that differ in supplier name and in
\* the spelling of the tier, and a wine bundle with a capitalised tier
W1 == Prod("w1", "W1", "4", "Zed", "Red Wine", "Alpha", "platinum", 1)
B1 == [ Prod("b1", "B1", "4", "Zed", "Craft Beer", "Beta", "bronze", 0) EXCEPT
          !.sold_at_melbourne = 1 ]
T1 == Prod("t1", "T1", "4", "Zed", "Champagne", "Alpha", "gold", 0)
T2 == Prod("t2", "T2", "4", "Zed", "Champagne", "Beta", "gold", 0)
T3 == Prod("t3", "T3", "4", "Zed", "Champagne", "Gamma", "GOLD", 0)
WB == [ Prod("wb", "WB", "4", NoneV, "Wine", "Alpha", "Platinum", 1) EXCEPT
          !.is_bundle = TRUE, !.region = "Hunter Valley, NSW",
          !.country = "Australia", !.origin = "South Australia" ]

RankPool == { W1, B1, T1, T2, T3, WB }

BigLen == 12         \* length of the long catalog: more than the subset cap

\* the i-th product of the long catalog: platinum wine bundles sold in
\* Sydney, but for one gold product, one not sold in Sydney and one that is
\* no bundle
Big(i) ==
  [ Prod("g" \o ToString(i), "G" \o ToString(i), "4", NoneV, "Wine", "Alpha",
         IF i = 2 THEN "gold" ELSE "platinum", IF i = 3 THEN 0 ELSE 1)
      EXCEPT !.is_bundle = (i # 4) ]

BigCatalog == [ i \in 1..BigLen |-> Big(i) ]

\* catalogs of the ranking runs: the sequences of distinct ranking products
\* of length at most MaxLen, and the long catalog
RankCatalogs ==
  { c \in UNION { [1..n -> RankPool] : n \in 0..MaxLen } :
      \A i, j \in DOMAIN c : i # j => c[i] # c[j] }
  \cup { BigCatalog }

\* {venueType: "restaurant", cuisineStyle: "fine dining",
\*  location: {city: "Sydney"}}
ProfScenario ==
  [ DefaultProfile EXCEPT
      !.venueType = "restaurant", !.cuisineStyle = "fine dining",
      !.location = [ NoLocation EXCEPT !.present = TRUE, !.city = "Sydney" ] ]

ProfFine ==
  [ DefaultProfile EXCEPT
      !.venueType = "Fine Dining", !.cuisineStyle = "Fine Dining",
      !.city = "SYDNEY", !.state = "NSW" ]

\* profiles of the ranking runs; over the ranking products and these
\* profiles two composite scores are equal as floats exactly when they are
\* equal in thousandths
RankProfiles == { ProfScenario, ProfSydney, ProfFine, ProfCafe }

\* preselection widths of the ranking runs
RankTopK == { MaxTopK, 250 }

\* products of the field runs: one family varies the fields the locality
\* score reads, the other those the category fitness, the supplier boost
\* and the bundle terms read
LocalityProducts ==
  { [ DefaultProduct EXCEPT
        !.id = "f1", !.visibility = "4", !.sold_at_sydney = sy,
        !.sold_at_melbourne = me, !.region = rg, !.country = co,
        !.origin = og ] :
      sy \in {0, 1}, me \in {0, 1},
      rg \in { NoneV, "Hunter Valley, NSW", "VIC" },
      co \in { NoneV, "Australia", "France" },
      og \in { NoneV, "South Australia", "France" } }

CategoryProducts ==
  { [ DefaultProduct EXCEPT
        !.id = "f2", !.visibility = "4", !.category_level_1 = c1,
        !.category_level_2 = c2, !.category_level_3 = c3,
        !.is_bundle = b, !.supplier_tier = t ] :
      c1 \in { NoneV, "Wine", "Glassware", "Champagne", "Craft Beer" },
      c2 \in { NoneV, "Sparkling" }, c3 \in { NoneV, "Liquor" },
      b \in BOOLEAN, t \in { NoneV, "platinum", "GOLD", "Unknown" } }

\* catalogs of the field runs: one product each
FieldCatalogs == { << p >> : p \in LocalityProducts \cup CategoryProducts }

\* Profile.location: absent, present with every field None, and present
\* with some fields
NestedChoices ==
  { NoLocation,
    [ NoLocation EXCEPT !.present = TRUE ],
    [ NoLocation EXCEPT !.present = TRUE, !.city = "Sydney" ],
    [ present |-> TRUE, city |-> "SYDNEY", state |-> "NSW",
      country |-> "Australia" ],
    [ present |-> TRUE, city |-> "Perth", state |-> "VIC",
      country |-> NoneV ] }

LocationProfiles ==
  { [ DefaultProfile EXCEPT
        !.location = loc, !.city = city, !.state = state,
        !.country = country ] :
      loc \in NestedChoices, city \in { NoneV, "Melbourne" },
      state \in { NoneV, "NSW" }, country \in { NoneV, "Australia" } }

VenueProfiles ==
  { [ DefaultProfile EXCEPT !.venueType = v, !.cuisineStyle = cs ] :
      v \in { "restaurant", "Fine Dining", "fine dining", "Pub", "cafe", "Bar" },
      cs \in { NoneV, "Fine Dining", "fine dining" } }

FieldProfiles == LocationProfiles \cup VenueProfiles

MissingList == Field("missing", <<>>)

JsonData(ids, reasoning, confidence) ==
  [ curatedProductIds |-> ids, reasoning |-> reasoning,
    confidence |-> confidence,
    platinumSupplierProducts |-> MissingList, bundledPacks |-> MissingList,
    localFavorites |-> MissingList, businessInsights |-> MissingList,
    nextSteps |-> MissingList ]

NoData == JsonData(MissingList, MissingList, Field("missing", 0))

Reply(status, kind, data) ==
  [ status |-> status, body |-> [ kind |-> kind, data |-> data ] ]

LlmReasoning == Field("ok", << Line("llm_reason", "", 0) >>)

ReplyGood ==
  Reply("200", "json",
        [ JsonData(Field("ok", << "S1", "a2" >>), LlmReasoning,
                   Field("ok", 900))
            EXCEPT !.platinumSupplierProducts = Field("ok", << "S1" >>),
                   !.businessInsights =
                      Field("ok", << Line("llm_insight", "", 0) >>) ])

ReplyUnknownId ==
  Reply("200", "json",
        JsonData(Field("ok", << "XX", "S1" >>), LlmReasoning,
                 Field("ok", 1700)))

\* what the gateway call can come back with: a transport failure, a
\* non-200 status, a body that is not JSON, a JSON object without
\* confidence, one with a list field of another type, one with a NaN
\* confidence, and two well-formed answers
GatewayReplies ==
  { Reply("exception", "none", NoData),
    Reply("500", "none", NoData),
    Reply("200", "not_json", NoData),
    Reply("200", "json",
          JsonData(Field("ok", << "S1" >>), LlmReasoning, Field("missing", 0))),
    Reply("200", "json",
          [ JsonData(Field("ok", << "S1" >>), LlmReasoning, Field("ok", 700))
              EXCEPT !.bundledPacks = Field("wrong", <<>>) ]),
    Reply("200", "json",
          JsonData(Field("ok", << "S1" >>), LlmReasoning, Field("nan", 0))),
    ReplyGood,
    ReplyUnknownId }

\* the JSON objects of the gateway runs: every field present with the
\* expected type, absent, or present with another type
IdChoices ==
  { Field("ok", << "S1", "a2" >>), Field("ok", << "XX", "S1" >>),
    Field("ok", << "S5", "a2" >>), MissingList, Field("wrong", <<>>) }

ReasoningChoices == { LlmReasoning, MissingList, Field("wrong", <<>>) }

ConfidenceChoices ==
  { Field("ok", 900), Field("ok", 1000), Field("ok", 1700), Field("ok", -300),
    Field("nan", 0), Field("missing", 0), Field("wrong", 0) }

\* the optional lists: all absent, all present (with an identifier of no
\* product, the sku of the hidden product h1 and an order that is not the
\* ranked one), or one of another type
ExtraChoices ==
  { NoData,
    [ NoData EXCEPT
        !.platinumSupplierProducts = Field("ok", << "S1", "S5", "XX" >>),
        !.bundledPacks = Field("ok", << "XX", "u1" >>),
        !.localFavorites = Field("ok", << "a2", "XX", "S1" >>),
        !.businessInsights = Field("ok", << Line("llm_insight", "", 0) >>),
        !.nextSteps = Field("ok", << Line("llm_step", "", 0) >>) ],
    [ NoData EXCEPT !.bundledPacks = Field("wrong", <<>>) ] }

JsonReplies ==
  { Reply("200", "json",
          [ x EXCEPT !.curatedProductIds = ids, !.reasoning = reasoning,
                     !.confidence = confidence ]) :
      ids \in IdChoices, reasoning \in ReasoningChoices,
      confidence \in ConfidenceChoices, x \in ExtraChoices }

\* what the gateway call can come back with in the gateway runs: a network
\* failure, a timeout, a non-200 status, a body without choices, with empty
\* content or with content that is not JSON, and the JSON objects
ParseReplies ==
  { Reply("exception", "none", NoData), Reply("timeout", "none", NoData),
    Reply("500", "none", NoData), Reply("404", "none", NoData),
    Reply("200", "no_choices", NoData), Reply("200", "empty_content", NoData),
    Reply("200", "not_json", NoData) }
  \cup JsonReplies

RaisedReply == Reply("raised", "none", NoData)

NoReply == Reply("pending", "none", NoData)

\* ------------------------------------------------------------------------
\* State
\* ------------------------------------------------------------------------
VARIABLES
  products,          \* main.products: the catalog, shared by every request
  USE_LLM,           \* main.USE_LLM (llm_client is set exactly when it holds)
  TOP_K_PRESELECT,   \* main.TOP_K_PRESELECT
  running,           \* the handlers running on the event loop: {} or {r}
  clock,             \* datetime.utcnow(), as a count of results built
  req                \* per request: position and local variables

vars == << products, USE_LLM, TOP_K_PRESELECT, running, clock, req >>

EmptyData ==
  [ curatedProductIds |-> <<>>, curatedProducts |-> <<>>,
    reasoning |-> <<>>, confidence |-> Conf(0),
    platinumSupplierProducts |-> <<>>, platinumProducts |-> <<>>,
    bundledPacks |-> <<>>, bundledProducts |-> <<>>,
    localFavorites |-> <<>>, localFavoriteProducts |-> <<>>,
    businessInsights |-> <<>>, nextSteps |-> <<>>, generatedAt |-> 0 ]

\* the body sent to the caller: response_data, with every list of Product
\* objects serialised from the objects as they are at that moment
Serialised(response_data, prods) ==
  [ data |-> response_data,
    curatedProducts |->
      [ k \in 1..Len(response_data.curatedProducts) |->
          prods[response_data.curatedProducts[k]] ],
    platinumProducts |->
      [ k \in 1..Len(response_data.platinumProducts) |->
          prods[response_data.platinumProducts[k]] ],
    bundledProducts |->
      [ k \in 1..Len(response_data.bundledProducts) |->
          prods[response_data.bundledProducts[k]] ],
    localFavoriteProducts |->
      [ k \in 1..Len(response_data.localFavoriteProducts) |->
          prods[response_data.localFavoriteProducts[k]] ] ]

\* a request that has not arrived; base, reply, mergeRaised, gwCalls,
\* trace and raised record the base result as built, the gateway's answer,
\* an error raised by the merge, the number of gateway calls, the named
\* states passed and the step before the gateway call in which an error
\* was raised
IdleReq ==
  [ pc |-> "idle", profile |-> DefaultProfile, maxProducts |-> 0,
    scored |-> <<>>, candidates |-> <<>>, response_data |-> EmptyData,
    llm_response |-> NoResponse, result |-> Serialised(EmptyData, <<>>),
    base |-> EmptyData, reply |-> NoReply, mergeRaised |-> FALSE,
    gwCalls |-> 0, trace |-> <<>>, raised |-> "none" ]

Init ==
  /\ products \in RequestCatalogs
  /\ USE_LLM \in BOOLEAN
  /\ TOP_K_PRESELECT \in RequestTopK
  /\ running = {}
  /\ clock = 0
  /\ req = [ r \in Reqs |-> IdleReq ]

\* the request moves to a named state of the pipeline
Goto(q, state) == [ q EXCEPT !.pc = state, !.trace = Append(@, state) ]

\* ------------------------------------------------------------------------
\* main.curate_products, one action per step; from its entry to the await
\* and from the await to its return the handler runs without suspension
\* ------------------------------------------------------------------------
\* request r is the next to arrive; requests are numbered by arrival
Arrives(r) ==
  /\ req[r].pc = "idle"
  /\ \A q \in Reqs : q < r => req[q].pc # "idle"

\* lines 127-128: empty catalog
Reject503(r) ==
  /\ Arrives(r) /\ running = {}
  /\ products = <<>>
  /\ req' = [ req EXCEPT ![r].pc = "failed503" ]
  /\ running' = {r}
  /\ UNCHANGED << products, USE_LLM, TOP_K_PRESELECT, clock >>

\* the scoring step without the test of line 127 before it
ScoreWithUnchecked(r, profiles, maxima) ==
  /\ Arrives(r) /\ running = {}
  /\ \E profile \in profiles, maxProducts \in maxima :
       /\ products' = ScoredCatalog(products, profile)
       /\ req' = [ req EXCEPT ![r] =
                     Goto([ @ EXCEPT !.profile = profile,
                                     !.maxProducts = maxProducts,
                                     !.scored = score_products(products, profile) ],
                          "scored") ]
  /\ running' = {r}
  /\ UNCHANGED << USE_LLM, TOP_K_PRESELECT, clock >>

\* lines 130-136: the request arrives and the catalog is scored in place
ScoreWith(r, profiles, maxima) ==
  /\ Arrives(r) /\ running = {}
  /\ products # <<>>
  /\ \E profile \in profiles, maxProducts \in maxima :
       /\ products' = ScoredCatalog(products, profile)
       /\ req' = [ req EXCEPT ![r] =
                     Goto([ @ EXCEPT !.profile = profile,
                                     !.maxProducts = maxProducts,
                                     !.scored = score_products(products, profile) ],
                          "scored") ]
  /\ running' = {r}
  /\ UNCHANGED << USE_LLM, TOP_K_PRESELECT, clock >>

Score(r) == ScoreWith(r, RequestProfiles, MaxProductsValues)

\* the catalog when the scoring loop of lines 86-90 has written the first
\* k visible products
ScoredPrefix(prods, profile, k) ==
  LET visible == visible_products(prods)
  IN  [ i \in DOMAIN prods |->
          IF \E j \in 1..Min(k, Len(visible)) : visible[j] = i
            THEN ScoreOne(prods[i], profile) ELSE prods[i] ]

\* an error raised inside score_products that is swallowed: the request
\* goes on with an empty ranked list
ScoreRaisesSwallowed(r) ==
  /\ Arrives(r) /\ running = {}
  /\ products # <<>>
  /\ \E profile \in RequestProfiles, maxProducts \in MaxProductsValues :
       \E k \in 0..Len(visible_products(products)) :
         /\ products' = ScoredPrefix(products, profile, k)
         /\ req' = [ req EXCEPT ![r] =
                       Goto([ @ EXCEPT !.profile = profile,
                                       !.maxProducts = maxProducts,
                                       !.raised = "scoring" ],
                            "scored") ]
  /\ running' = {r}
  /\ UNCHANGED << USE_LLM, TOP_K_PRESELECT, clock >>

\* lines 130-136 and 206-208: score_products raises after it has written
\* some of the products; the outer handler answers 500
ScoreRaises(r) ==
  /\ Arrives(r) /\ running = {}
  /\ products # <<>>
  /\ \E profile \in RequestProfiles, maxProducts \in MaxProductsValues :
       \E k \in 0..Len(visible_products(products)) :
         /\ products' = ScoredPrefix(products, profile, k)
         /\ req' = [ req EXCEPT ![r].profile = profile,
                                ![r].maxProducts = maxProducts,
                                ![r].raised = "scoring",
                                ![r].pc = "failed500" ]
  /\ running' = {r}
  /\ UNCHANGED << USE_LLM, TOP_K_PRESELECT, clock >>

\* lines 139 and 206-208: select_candidates raises; the outer handler
\* answers 500
SelectRaises(r) ==
  /\ req[r].pc = "scored" /\ running = {r}
  /\ req' = [ req EXCEPT ![r].raised = "selection", ![r].pc = "failed500" ]
  /\ UNCHANGED << products, USE_LLM, TOP_K_PRESELECT, running, clock >>

\* the selection step followed by a suspension of the handler
SelectYielding(r) ==
  /\ req[r].pc = "scored" /\ running = {r}
  /\ req' = [ req EXCEPT ![r] =
                Goto([ @ EXCEPT !.candidates =
                         select_candidates(req[r].scored, TOP_K_PRESELECT,
                                           products) ],
                     "selected") ]
  /\ running' = {}
  /\ UNCHANGED << products, USE_LLM, TOP_K_PRESELECT, clock >>

\* line 139
Select(r) ==
  /\ req[r].pc = "scored" /\ running = {r}
  /\ req' = [ req EXCEPT ![r] =
                Goto([ @ EXCEPT !.candidates =
                         select_candidates(req[r].scored, TOP_K_PRESELECT,
                                           products) ],
                     "selected") ]
  /\ UNCHANGED << products, USE_LLM, TOP_K_PRESELECT, running, clock >>

\* lines 143-162
BuildBase(r) ==
  /\ req[r].pc = "selected" /\ running = {r}
  /\ LET data == BaseResponse(req[r].profile, req[r].candidates,
                              EffectiveMax(req[r].maxProducts), clock, products)
     IN  req' = [ req EXCEPT ![r] =
                    Goto([ @ EXCEPT !.response_data = data, !.base = data ],
                         "base_built") ]
  /\ clock' = clock + 1
  /\ UNCHANGED << products, USE_LLM, TOP_K_PRESELECT, running >>

\* line 165, with the flag ignored
GatewayAlwaysEnabled(use_llm) == TRUE

\* line 165: `if USE_LLM and llm_client`
GatewayEnabled(use_llm) == use_llm

SkipGateway(r) ==
  /\ req[r].pc = "base_built" /\ running = {r}
  /\ ~GatewayEnabled(USE_LLM)
  /\ req' = [ req EXCEPT ![r] = Goto(@, "llm_disabled") ]
  /\ UNCHANGED << products, USE_LLM, TOP_K_PRESELECT, running, clock >>

\* lines 168-172: the gateway is called and the handler is suspended
CallGateway(r) ==
  /\ req[r].pc = "base_built" /\ running = {r}
  /\ GatewayEnabled(USE_LLM)
  /\ req' = [ req EXCEPT ![r].pc = "awaiting", ![r].gwCalls = @ + 1 ]
  /\ running' = {}
  /\ UNCHANGED << products, USE_LLM, TOP_K_PRESELECT, clock >>

\* a failed call is tried again
AfterGatewayRetry(llm_response) ==
  IF ~llm_response.none THEN "llm_succeeded" ELSE "base_built"

\* lines 174-198: `if llm_response:` ... `else:`
AfterGateway(llm_response) ==
  IF ~llm_response.none THEN "llm_succeeded" ELSE "llm_failed"

\* the awaited call returns (a response or None); lines 174-198
GatewayReturnsWith(r, replies) ==
  /\ req[r].pc = "awaiting" /\ running = {}
  /\ \E reply \in replies :
       LET max_products == EffectiveMax(req[r].maxProducts)
           llm_response == finalize_candidates(reply, max_products)
           next == AfterGateway(llm_response)
           q == [ req[r] EXCEPT
                    !.reply = reply, !.llm_response = llm_response,
                    !.response_data =
                       ApplyGateway(@, llm_response, req[r].candidates,
                                    max_products, products) ]
       IN  req' = [ req EXCEPT ![r] =
                      IF next = "base_built" THEN [ q EXCEPT !.pc = next ]
                      ELSE Goto(q, next) ]
  /\ running' = {r}
  /\ UNCHANGED << products, USE_LLM, TOP_K_PRESELECT, clock >>

GatewayReturns(r) == GatewayReturnsWith(r, GatewayReplies)

\* the awaited call returns a response and lines 176-195 raise before the
\* update of response_data; lines 200-202 then keep the base result
MergeRaises(r) ==
  /\ req[r].pc = "awaiting" /\ running = {}
  /\ \E reply \in GatewayReplies :
       LET llm_response ==
             finalize_candidates(reply, EffectiveMax(req[r].maxProducts))
       IN  /\ ~llm_response.none
           /\ req' = [ req EXCEPT ![r] =
                         Goto([ @ EXCEPT !.reply = reply,
                                         !.llm_response = llm_response,
                                         !.mergeRaised = TRUE ],
                              "llm_failed") ]
  /\ running' = {r}
  /\ UNCHANGED << products, USE_LLM, TOP_K_PRESELECT, clock >>

\* the awaited call raises; lines 200-202
GatewayRaises(r) ==
  /\ req[r].pc = "awaiting" /\ running = {}
  /\ req' = [ req EXCEPT ![r] = Goto([ @ EXCEPT !.reply = RaisedReply ],
                                     "llm_failed") ]
  /\ running' = {r}
  /\ UNCHANGED << products, USE_LLM, TOP_K_PRESELECT, clock >>

\* CurateResponse.confidence: Field(ge=0.0, le=1.0)
ValidResponse(response_data) ==
  /\ ~response_data.confidence.nan
  /\ response_data.confidence.v >= 0
  /\ response_data.confidence.v <= 1000

\* a validation error that is swallowed, with no response sent
AfterValidationSwallowed(response_data) ==
  IF ValidResponse(response_data) THEN "responded" ELSE "llm_failed"

\* lines 204-208: CurateResponse(**response_data), or HTTPException(500)
AfterValidation(response_data) ==
  IF ValidResponse(response_data) THEN "responded" ELSE "failed500"

Respond(r) ==
  /\ req[r].pc \in {"llm_disabled", "llm_succeeded", "llm_failed"}
  /\ running = {r}
  /\ LET next == AfterValidation(req[r].response_data)
     IN  req' = [ req EXCEPT ![r] =
                    IF next = "responded"
                      THEN Goto([ @ EXCEPT !.result =
                                    Serialised(req[r].response_data,
                                               products) ],
                                "responded")
                      ELSE [ @ EXCEPT !.pc = next ] ]
  /\ UNCHANGED << products, USE_LLM, TOP_K_PRESELECT, running, clock >>

\* the handler has returned or raised: the response is sent and the
\* request's Profile, lists and CurateResponse are discarded
Close(r) ==
  /\ req[r].pc \in { "responded", "failed503", "failed500" }
  /\ running = {r}
  /\ req' = [ req EXCEPT ![r] = [ IdleReq EXCEPT !.pc = "closed" ] ]
  /\ running' = {}
  /\ UNCHANGED << products, USE_LLM, TOP_K_PRESELECT, clock >>

Next ==
  \E r \in Reqs :
    \/ Reject503(r)
    \/ Score(r)
    \/ Select(r)
    \/ BuildBase(r)
    \/ SkipGateway(r)
    \/ CallGateway(r)
    \/ GatewayReturns(r)
    \/ MergeRaises(r)
    \/ GatewayRaises(r)
    \/ Respond(r)
    \/ Close(r)

Spec == Init /\ [][Next]_vars

\* every step of a request that has arrived is eventually taken, and the
\* awaited gateway call eventually returns or raises
FairSpec ==
  /\ Spec
  /\ \A r \in Reqs :
       /\ WF_vars(Select(r))
       /\ WF_vars(BuildBase(r))
       /\ WF_vars(SkipGateway(r))
       /\ WF_vars(CallGateway(r))
       /\ WF_vars(GatewayReturns(r) \/ MergeRaises(r) \/ GatewayRaises(r))
       /\ WF_vars(Respond(r))
       /\ WF_vars(Close(r))

\* ------------------------------------------------------------------------
\* Scoring and selection on their own: one request, any pool catalog
\* ------------------------------------------------------------------------
InitScore ==
  /\ products \in PoolCatalogs
  /\ USE_LLM = FALSE
  /\ TOP_K_PRESELECT \in TopKValues
  /\ running = {}
  /\ clock = 0
  /\ req = [ r \in Reqs |-> IdleReq ]

ScoreAny == ScoreWith(1, ScoreProfiles, {0})

SelectAny == Select(1)

NextScore == ScoreAny \/ SelectAny

SpecScore == InitScore /\ [][NextScore]_vars

\* ------------------------------------------------------------------------
\* Ranking and the base result on their own: one request, gateway disabled
\* ------------------------------------------------------------------------
InitRank ==
  /\ products \in RankCatalogs
  /\ USE_LLM = FALSE
  /\ TOP_K_PRESELECT \in RankTopK
  /\ running = {}
  /\ clock = 0
  /\ req = [ r \in Reqs |-> IdleReq ]

ScoreRank == ScoreWith(1, RankProfiles, MaxProductsValues)

BuildBaseAny == BuildBase(1)

NextRank == ScoreRank \/ SelectAny \/ BuildBaseAny

SpecRank == InitRank /\ [][NextRank]_vars

\* ------------------------------------------------------------------------
\* The score formulas and the resolution of the location: one request over
\* one product, gateway disabled
\* ------------------------------------------------------------------------
InitFields ==
  /\ products \in FieldCatalogs
  /\ USE_LLM = FALSE
  /\ TOP_K_PRESELECT = 250
  /\ running = {}
  /\ clock = 0
  /\ req = [ r \in Reqs |-> IdleReq ]

ScoreFields == ScoreWith(1, FieldProfiles, {0})

NextFields == ScoreFields \/ SelectAny \/ BuildBaseAny

SpecFields == InitFields /\ [][NextFields]_vars

\* ------------------------------------------------------------------------
\* One request with re-ranking enabled, and every gateway reply
\* ------------------------------------------------------------------------
InitGateway ==
  /\ products \in RequestCatalogs
  /\ USE_LLM = TRUE
  /\ TOP_K_PRESELECT \in RequestTopK
  /\ running = {}
  /\ clock = 0
  /\ req = [ r \in Reqs |-> IdleReq ]

GatewayReturnsAny == GatewayReturnsWith(1, ParseReplies)

NextGateway ==
  \/ Reject503(1)
  \/ Score(1)
  \/ ScoreRaises(1)
  \/ Select(1)
  \/ SelectRaises(1)
  \/ BuildBase(1)
  \/ CallGateway(1)
  \/ GatewayReturnsAny
  \/ MergeRaises(1)
  \/ GatewayRaises(1)
  \/ Respond(1)

SpecGateway == InitGateway /\ [][NextGateway]_vars

\* ------------------------------------------------------------------------
\* Properties
\* ------------------------------------------------------------------------
Range(seq) == { seq[k] : k \in 1..Len(seq) }

Responded(r) == req[r].pc = "responded"

\* the list and reasoning fields of a result
ListFields(data) ==
  << data.curatedProductIds, data.curatedProducts,
     data.platinumSupplierProducts, data.platinumProducts,
     data.bundledPacks, data.bundledProducts,
     data.localFavorites, data.localFavoriteProducts,
     data.reasoning, data.confidence, data.businessInsights,
     data.nextSteps >>

\* C1: when the gateway is disabled, returns None or raises, the returned
\* result is the base result as it was built before the gateway call, and
\* its confidence is 0.8.
C1_FallbackGuarantee ==
  \A r \in Reqs :
    ( /\ Responded(r)
      /\ \/ ~USE_LLM
         \/ req[r].reply.status = "raised"
         \/ req[r].gwCalls > 0 /\ req[r].llm_response.none )
    => /\ req[r].result.data = req[r].base
       /\ req[r].result.data.confidence = Conf(800)
       /\ req[r].result.data.generatedAt = req[r].base.generatedAt

\* a request answered from the base result after the gateway call failed
\* in transport
C1_Witness ==
  \E r \in Reqs :
    /\ Responded(r) /\ USE_LLM
    /\ req[r].reply.status = "exception"
    /\ req[r].llm_response.none
    /\ Len(req[r].result.curatedProducts) > 0

\* the fields of a result taken from the gateway's response alone
GatewayFields(r) ==
  LET llm == req[r].llm_response
      max_products == EffectiveMax(req[r].maxProducts)
      Records(skus) == map_skus_to_products(skus, req[r].candidates, products)
  IN  << Take(llm.curatedProductIds, max_products),
         Take(Records(llm.curatedProductIds), max_products),
         llm.platinumSupplierProducts, Records(llm.platinumSupplierProducts),
         llm.bundledPacks, Records(llm.bundledPacks),
         llm.localFavorites, Records(llm.localFavorites),
         llm.reasoning, llm.confidence, llm.businessInsights, llm.nextSteps >>

\* C2: the list and reasoning fields of a returned result are all those of
\* the base result or all those derived from the gateway's response, also
\* when the merge raised.
C2_NoPartialMerge ==
  \A r \in Reqs :
    Responded(r)
    => \/ ListFields(req[r].result.data) = ListFields(req[r].base)
       \/ /\ ~req[r].llm_response.none
          /\ ~req[r].mergeRaised
          /\ ListFields(req[r].result.data) = GatewayFields(r)

\* a returned result taken whole from the gateway, with curated records and
\* insights that differ from the base result's
C2_Witness ==
  \E r \in Reqs :
    /\ Responded(r) /\ ~req[r].llm_response.none /\ ~req[r].mergeRaised
    /\ req[r].result.data.businessInsights # req[r].base.businessInsights
    /\ req[r].result.data.curatedProducts # req[r].base.curatedProducts

\* C3: in every returned result the curated identifier list and the curated
\* record list have the same length and the i-th identifier is that of the
\* i-th record.
C3_CuratedAligned ==
  \A r \in Reqs :
    Responded(r)
    => LET ids == req[r].result.data.curatedProductIds
           records == req[r].result.curatedProducts
       IN  /\ Len(ids) = Len(records)
           /\ \A i \in 1..Len(ids) : ids[i] = ProductKey(records[i])

\* the four score fields of a record are those computed for the profile
OwnScores(record, profile) ==
  LET own == ScoreOne(record, profile)
  IN  /\ record.locality_score = own.locality_score
      /\ record.category_fitness = own.category_fitness
      /\ record.supplier_boost = own.supplier_boost
      /\ record.composite_score = own.composite_score

\* C4: every product record of a returned result carries the scores
\* computed for the profile of that request, whatever other requests ran
\* while it waited for the gateway.
C4_RequestIsolation ==
  \A r \in Reqs :
    Responded(r)
    => \A record \in Range(req[r].result.curatedProducts)
                       \cup Range(req[r].result.platinumProducts)
                       \cup Range(req[r].result.bundledProducts)
                       \cup Range(req[r].result.localFavoriteProducts) :
         OwnScores(record, req[r].profile)

Terminal == { "responded", "failed503", "failed500", "closed" }

\* C5: a request that has arrived eventually reaches a terminal state: a
\* returned result, a 503 or a 500.
C5_Terminates ==
  \A r \in Reqs : (req[r].pc # "idle") ~> (req[r].pc \in Terminal)

\* a request that reached its 500 after the gateway had answered
C5_Witness ==
  \E r \in Reqs :
    /\ req[r].pc = "failed500" /\ req[r].gwCalls = 1
    /\ ~req[r].llm_response.none

\* C6: the gateway is called at most once for a request.
C6_SingleAttempt == \A r \in Reqs : req[r].gwCalls <= 1

\* a request answered after its one gateway call returned None
C6_Witness ==
  \E r \in Reqs :
    /\ Responded(r) /\ req[r].gwCalls = 1
    /\ req[r].llm_response.none
    /\ req[r].reply.body.kind = "not_json"

\* C7: a returned request has passed SCORED, SELECTED, BASE_BUILT, one of
\* LLM_DISABLED, LLM_SUCCEEDED, LLM_FAILED and RESPONDED in this order; the
\* gateway is called only with the base result built, and never when
\* re-ranking is disabled.
C7_PipelineOrder ==
  \A r \in Reqs :
    /\ Responded(r)
       => \E x \in { "llm_disabled", "llm_succeeded", "llm_failed" } :
            /\ req[r].trace
                 = << "scored", "selected", "base_built", x, "responded" >>
            /\ (x = "llm_disabled") <=> ~USE_LLM
            /\ (x = "llm_disabled") <=> (req[r].gwCalls = 0)
    /\ req[r].gwCalls > 0
       => /\ USE_LLM
          /\ Len(req[r].trace) >= 3
          /\ SubSeq(req[r].trace, 1, 3) = << "scored", "selected", "base_built" >>
          /\ req[r].base # EmptyData

\* a request answered with the gateway's result
C7_Witness ==
  \E r \in Reqs :
    /\ Responded(r)
    /\ req[r].trace[4] = "llm_succeeded"
    /\ req[r].gwCalls = 1

\* C8: the list returned by score_products holds every catalog product
\* with visibility code "4" exactly once and no other product.
C8_ScoredIsVisiblePermutation ==
  \A r \in Reqs :
    req[r].pc \in { "scored", "selected" }
    => LET scored == req[r].scored
       IN  /\ \A i, j \in 1..Len(scored) : i # j => scored[i] # scored[j]
           /\ Range(scored)
                = { i \in DOMAIN products : products[i].visibility = "4" }

\* a scored catalog with two visible products, a hidden one and one
\* without a visibility code
C8_Witness ==
  \E r \in Reqs :
    /\ req[r].pc = "scored"
    /\ Len(req[r].scored) >= 2
    /\ \E i \in DOMAIN products : products[i].visibility = "1"
    /\ \E i \in DOMAIN products : products[i].visibility = NoneV

\* position of a catalog index in a sequence without repetition
PosIn(seq, x) == CHOOSE k \in 1..Len(seq) : seq[k] = x

\* the candidates accepted before position k of the ranked list that share
\* the diversity key of the product at position k
EarlierSameKey(r, k) ==
  { c \in Range(req[r].candidates) :
      /\ PosIn(req[r].scored, c) < k
      /\ DiversityKey(products[c])
           = DiversityKey(products[req[r].scored[k]]) }

\* C9: select_candidates returns at most topK candidates, in ranked order,
\* and returns fewer than topK only when the ranked list is exhausted: every
\* product left out then had three accepted candidates of its key before it.
C9_AtMostTopK ==
  \A r \in Reqs :
    req[r].pc = "selected"
    => LET scored == req[r].scored
           candidates == req[r].candidates
       IN  /\ Len(candidates) <= TOP_K_PRESELECT
           /\ Range(candidates) \subseteq Range(scored)
           /\ \A i, j \in 1..Len(candidates) :
                i < j => PosIn(scored, candidates[i]) < PosIn(scored, candidates[j])
           /\ Len(candidates) < TOP_K_PRESELECT
              => \A k \in 1..Len(scored) :
                   \/ scored[k] \in Range(candidates)
                   \/ Cardinality(EarlierSameKey(r, k)) >= 3

\* a selection cut at topK = 2 from a ranked list of four
C9_Witness ==
  \E r \in Reqs :
    /\ req[r].pc = "selected"
    /\ TOP_K_PRESELECT = 2
    /\ Len(req[r].scored) = 4
    /\ Len(req[r].candidates) = 2

\* C10: no more than three selected candidates share a (brand, category)
\* pair, lower-cased and with "unknown" for a missing value; of four ranked
\* products of one pair and topK = 10, the first three are selected.
C10_DiversityCap ==
  \A r \in Reqs :
    req[r].pc = "selected"
    => \A c \in Range(req[r].candidates) :
         Cardinality({ d \in Range(req[r].candidates) :
                         DiversityKey(products[d]) = DiversityKey(products[c]) })
           <= 3

\* the gateway call of request r has ended, by a reply or by an error
PastGateway(r) ==
  /\ req[r].gwCalls > 0
  /\ req[r].pc \in { "llm_succeeded", "llm_failed", "responded", "failed500" }

\* the nearest point of [0,1] to a number of thousandths
NearestInUnit(v) == IF v < 0 THEN 0 ELSE IF v > 1000 THEN 1000 ELSE v

\* the reply is a JSON object with every field present of the expected
\* type, or absent if it is optional, and a confidence that is a number
WellTyped(reply) ==
  /\ reply.status = "200" /\ reply.body.kind = "json"
  /\ \A f \in { "curatedProductIds", "reasoning", "confidence" } :
       reply.body.data[f].tag = "ok"
  /\ \A f \in { "platinumSupplierProducts", "bundledPacks", "localFavorites",
                "businessInsights", "nextSteps" } :
       reply.body.data[f].tag \in { "ok", "missing" }

\* C11: the confidence of every returned result lies in [0,1]; a gateway
\* confidence outside [0,1] is replaced by the nearest bound, and the
\* response that carries it is accepted and returned.
C11_ConfidenceClamped ==
  \A r \in Reqs :
    /\ Responded(r)
       => /\ ~req[r].result.data.confidence.nan
          /\ req[r].result.data.confidence.v \in 0..1000
    /\ (PastGateway(r) /\ WellTyped(req[r].reply))
       => LET c == req[r].reply.body.data.confidence.v
          IN  /\ ~req[r].llm_response.none
              /\ req[r].llm_response.confidence = Conf(NearestInUnit(c))
              /\ req[r].pc # "failed500"
              /\ ~req[r].mergeRaised
                 => /\ req[r].response_data.confidence = Conf(NearestInUnit(c))
                    /\ req[r].pc = "llm_succeeded" \/ Responded(r)
                    /\ Responded(r)
                       => req[r].result.data.confidence = Conf(NearestInUnit(c))

\* a returned result of confidence 1.0 from a gateway confidence of 1.7
C11_Witness ==
  \E r \in Reqs :
    /\ Responded(r) /\ PastGateway(r) /\ WellTyped(req[r].reply)
    /\ req[r].reply.body.data.confidence.v = 1700
    /\ req[r].result.data.confidence = Conf(1000)
    /\ req[r].trace[4] = "llm_succeeded"

\* the reply is a 200 whose content is not JSON, or JSON that lacks a
\* required field or holds a field of another type
ContentError(reply) ==
  /\ reply.status = "200"
  /\ \/ reply.body.kind \in { "no_choices", "empty_content", "not_json" }
     \/ /\ reply.body.kind = "json"
        /\ \/ \E f \in { "curatedProductIds", "reasoning", "confidence" } :
                reply.body.data[f].tag = "missing"
           \/ \E f \in { "curatedProductIds", "reasoning", "confidence",
                         "platinumSupplierProducts", "bundledPacks",
                         "localFavorites", "businessInsights", "nextSteps" } :
                reply.body.data[f].tag = "wrong"

TransportError(reply) == reply.status \notin { "200", "pending" }

\* C13: a gateway transport error (non-2xx status, network failure,
\* timeout) is taken as no response: the request does not fail and the
\* result returned is the base result.
C13_TransportErrorFallsBack ==
  \A r \in Reqs :
    (PastGateway(r) /\ TransportError(req[r].reply))
    => /\ req[r].llm_response.none
       /\ req[r].pc \in { "llm_failed", "responded" }
       /\ req[r].response_data = req[r].base
       /\ Responded(r)
          => /\ req[r].result.data = req[r].base
             /\ req[r].trace[4] = "llm_failed"

\* a request answered with the base result after the gateway call timed out
C13_Witness ==
  \E r \in Reqs :
    /\ Responded(r) /\ PastGateway(r)
    /\ req[r].reply.status = "timeout"
    /\ Len(req[r].result.curatedProducts) > 0
    /\ req[r].result.data = req[r].base

\* the gateway's list under a key of its JSON object, [] when absent
RawList(r, f) ==
  LET x == req[r].reply.body.data[f]
  IN  IF x.tag = "ok" THEN x.v ELSE <<>>

\* records holds, in the order of ids, the candidate of each identifier of
\* ids that is the key of a candidate, and nothing else
RemappedFrom(ids, records, r) ==
  LET keys == Range(KeysOf(req[r].candidates, products))
      found == SelectSeq(ids, LAMBDA id : id \in keys)
  IN  /\ Range(records) \subseteq Range(req[r].candidates)
      /\ KeysOf(records, products) = found

\* C14: in a result taken from a valid gateway response each identifier
\* list is the gateway's (the curated one cut to maxProducts), and each
\* record list holds the candidates found for its identifiers, in the
\* gateway's order; an identifier of no candidate stays in the identifier
\* list and has no record.
C14_RemappedInsideCandidates ==
  \A r \in Reqs :
    (Responded(r) /\ PastGateway(r) /\ WellTyped(req[r].reply)
       /\ ~req[r].mergeRaised)
    => LET data == req[r].result.data
           max_products == EffectiveMax(req[r].maxProducts)
       IN  /\ data.curatedProductIds
                = Take(RawList(r, "curatedProductIds"), max_products)
           /\ data.platinumSupplierProducts
                = RawList(r, "platinumSupplierProducts")
           /\ data.bundledPacks = RawList(r, "bundledPacks")
           /\ data.localFavorites = RawList(r, "localFavorites")
           /\ RemappedFrom(data.curatedProductIds, data.curatedProducts, r)
           /\ RemappedFrom(data.platinumSupplierProducts,
                           data.platinumProducts, r)
           /\ RemappedFrom(data.bundledPacks, data.bundledProducts, r)
           /\ RemappedFrom(data.localFavorites, data.localFavoriteProducts, r)

\* a returned result whose local favourites keep an identifier of no
\* candidate and hold the two records found, in the gateway's order, which
\* is not the candidates'
C14_Witness ==
  \E r \in Reqs :
    /\ Responded(r) /\ PastGateway(r) /\ WellTyped(req[r].reply)
    /\ ~req[r].mergeRaised
    /\ req[r].result.data.localFavorites = << "a2", "XX", "S1" >>
    /\ KeysOf(req[r].result.data.localFavoriteProducts, products)
         = << "a2", "S1" >>
    /\ KeysOf(req[r].candidates, products) = << "S1", "a2" >>
    /\ req[r].result.data.curatedProductIds = << "XX", "S1" >>
    /\ Len(req[r].result.curatedProducts) = 1

FourScores(product) ==
  << product.locality_score, product.category_fitness,
     product.supplier_boost, product.composite_score >>

\* C15: each of the four computed fields of every visible product lies in
\* [0,1], before and after score_products, whatever the profile.
C15_ScoresInUnitInterval ==
  \A i \in DOMAIN products :
    products[i].visibility = "4"
    => \A k \in 1..4 : FourScores(products[i])[k] \in 0..1000

\* a scored wine bundle whose category fitness stands at the cap: weight
\* 1.0 and bundle bonus 0.1
C15_Witness ==
  \E i \in DOMAIN products :
    /\ req[1].pc = "scored"
    /\ products[i].is_bundle
    /\ extract_category(products[i]) = "wine"
    /\ Lower(req[1].profile.venueType) = "restaurant"
    /\ products[i].category_fitness = 1000
    /\ products[i].composite_score = 850

\* the catalog with the four score fields of every product at their defaults
Pristine(prods) ==
  [ i \in DOMAIN prods |->
      [ prods[i] EXCEPT !.locality_score = 0, !.category_fitness = 0,
                        !.supplier_boost = 0, !.composite_score = 0 ] ]

\* C16: the scores and the ranked list that score_products has just left
\* are those a second run with the same profile leaves, and those a run on
\* the catalog with its score fields reset leaves: they depend on the base
\* fields and the profile alone.
C16_ScoringIsPure ==
  \A r \in Reqs :
    req[r].pc = "scored"
    => LET again == ScoredCatalog(products, req[r].profile)
           fresh == ScoredCatalog(Pristine(products), req[r].profile)
       IN  /\ \A i \in DOMAIN products :
                products[i].visibility = "4"
                => /\ FourScores(again[i]) = FourScores(products[i])
                   /\ FourScores(fresh[i]) = FourScores(products[i])
           /\ score_products(products, req[r].profile) = req[r].scored
           /\ score_products(Pristine(products), req[r].profile)
                = req[r].scored

\* a second scoring of the catalog with the profile of the first, whose
\* request still waits for the gateway
C16_Witness ==
  /\ req[1].pc = "awaiting" /\ req[2].pc = "scored"
  /\ req[1].profile = req[2].profile
  /\ Len(req[2].scored) >= 2
  /\ \E i \in DOMAIN products : products[i].composite_score > 0

\* C17: the ranked list is in descending order of composite score; among
\* equal composite scores in descending order of the tier weight of the sort
\* key; among products equal on both in ascending order of supplier name.
C17_RankedOrder ==
  \A r \in Reqs :
    req[r].pc = "scored"
    => \A k, l \in 1..Len(req[r].scored) :
         k < l
         => LET a == products[req[r].scored[k]]
                b == products[req[r].scored[l]]
            IN  /\ a.composite_score >= b.composite_score
                /\ a.composite_score = b.composite_score
                   => SortWeight(a) >= SortWeight(b)
                /\ ( a.composite_score = b.composite_score
                     /\ SortWeight(a) = SortWeight(b) )
                   => StrRank(OrElse(a.supplier, ""))
                        <= StrRank(OrElse(b.supplier, ""))

\* the city the scorer resolves for the profile, lower-cased; "" for none
ResolvedCity(profile) ==
  LET city == ScorerLocation(profile).city
  IN  IF Truthy(city) THEN Lower(city) ELSE ""

\* the profile of the scenario: a restaurant, fine dining, in Sydney
IsScenarioProfile(profile) ==
  /\ profile.venueType = "restaurant"
  /\ profile.cuisineStyle = "fine dining"
  /\ ResolvedCity(profile) = "sydney"

\* a visible platinum-tier wine product sold in Sydney
IsScenarioWine(product) ==
  /\ product.visibility = "4"
  /\ Truthy(product.supplier_tier) /\ Lower(product.supplier_tier) = "platinum"
  /\ Truthy(product.category_level_1)
  /\ Contains("wine", Lower(product.category_level_1))
  /\ product.sold_at_sydney = 1

\* a visible bronze-tier beer product not sold in Sydney
IsScenarioBeer(product) ==
  /\ product.visibility = "4"
  /\ product.supplier_tier = "bronze"
  /\ Truthy(product.category_level_1)
  /\ Contains("beer", Lower(product.category_level_1))
  /\ product.sold_at_sydney = 0

\* C18: for a restaurant, fine dining, Sydney profile the composite score of
\* a visible platinum wine product sold in Sydney is strictly greater than
\* that of a visible bronze beer product not sold there, the wine product is
\* ranked before the beer product, and first when the catalog is these two.
C18_WineBeforeBeer ==
  \A r \in Reqs :
    (req[r].pc = "scored" /\ IsScenarioProfile(req[r].profile))
    => \A i, j \in DOMAIN products :
         (IsScenarioWine(products[i]) /\ IsScenarioBeer(products[j]))
         => /\ products[i].composite_score > products[j].composite_score
            /\ PosIn(req[r].scored, i) < PosIn(req[r].scored, j)
            /\ Len(products) = 2 => req[r].scored = << i, j >>

\* the scenario itself: the beer product stands first in the catalog and
\* the wine product first in the ranked list
C18_Witness ==
  /\ req[1].pc = "scored"
  /\ req[1].profile = ProfScenario
  /\ Pristine(products) = << B1, W1 >>
  /\ req[1].scored = << 2, 1 >>
  /\ products[2].composite_score = 690
  /\ products[1].composite_score = 160

\* C19: the curated list of the base result is the first maxProducts
\* candidates, in candidate order, with their identifiers; the curated
\* identifier list of every returned result has at most maxProducts entries.
C19_CuratedCappedAtMax ==
  \A r \in Reqs :
    LET max_products == EffectiveMax(req[r].maxProducts)
        candidates == req[r].candidates
        curated == req[r].base.curatedProducts
        ids == req[r].base.curatedProductIds
    IN  /\ Len(req[r].trace) >= 3
           => /\ Len(curated) = Min(max_products, Len(candidates))
              /\ Len(ids) = Len(curated)
              /\ \A k \in 1..Len(curated) :
                   /\ curated[k] = candidates[k]
                   /\ ids[k] = ProductKey(products[candidates[k]])
        /\ Responded(r)
           => Len(req[r].result.data.curatedProductIds) <= max_products

\* a returned result cut to maxProducts = 1 from two identifiers of the
\* gateway, for a request with more than one candidate
C19_Witness ==
  \E r \in Reqs :
    /\ Responded(r) /\ req[r].maxProducts = 1
    /\ Len(req[r].candidates) >= 2
    /\ Len(req[r].base.curatedProducts) = 1
    /\ req[r].trace[4] = "llm_succeeded"
    /\ Len(RawList(r, "curatedProductIds")) = 2
    /\ Len(req[r].result.data.curatedProductIds) = 1

\* records holds the first ten (or all, if fewer) of the candidates that
\* lie in the set matching, in candidate order
FirstTenMatching(records, candidates, matching) ==
  LET hits == matching \cap Range(candidates)
  IN  /\ Range(records) \subseteq hits
      /\ Len(records) = Min(10, Cardinality(hits))
      /\ \A a, b \in 1..Len(records) :
           a < b => PosIn(candidates, records[a]) < PosIn(candidates, records[b])
      /\ \A c \in hits \ Range(records) :
           \A k \in 1..Len(records) :
             PosIn(candidates, records[k]) < PosIn(candidates, c)

\* C20: in the base result the platinum, bundle and local-favourite subsets
\* are the first ten at most of the candidates whose tier is "platinum",
\* whose bundle flag is set, and whose city flag earns the city bonus of the
\* locality score for the profile, in candidate order; each identifier list
\* names the records of its subset, one for one.
C20_NamedSubsets ==
  \A r \in Reqs :
    req[r].pc = "base_built"
    => LET data == req[r].base
           candidates == req[r].candidates
           city == ResolvedCity(req[r].profile)
       IN  /\ FirstTenMatching(data.platinumProducts, candidates,
                { i \in DOMAIN products :
                    products[i].supplier_tier = "platinum" })
           /\ FirstTenMatching(data.bundledProducts, candidates,
                { i \in DOMAIN products : products[i].is_bundle })
           /\ FirstTenMatching(data.localFavoriteProducts, candidates,
                { i \in DOMAIN products :
                    CityBonus(products[i], city) = 300 })
           /\ data.platinumSupplierProducts
                = KeysOf(data.platinumProducts, products)
           /\ data.bundledPacks = KeysOf(data.bundledProducts, products)
           /\ data.localFavorites
                = KeysOf(data.localFavoriteProducts, products)

\* a base result over the long catalog: eleven platinum candidates, eleven
\* bundles and eleven sold in Sydney, each subset cut to ten
C20_Witness ==
  /\ req[1].pc = "base_built"
  /\ Len(req[1].candidates) > 10
  /\ Cardinality({ i \in Range(req[1].candidates) :
                     products[i].supplier_tier = "platinum" }) > 10
  /\ Len(req[1].base.platinumProducts) = 10
  /\ Len(req[1].base.bundledProducts) = 10
  /\ Len(req[1].base.localFavoriteProducts) = 10
  /\ req[1].base.platinumProducts # req[1].base.bundledProducts

\* C21: while the catalog is empty a request is answered 503 and nothing
\* else happens to it: it is not scored, no candidates are selected and the
\* gateway is not called.
C21_EmptyCatalog503 ==
  \A r \in Reqs :
    /\ products = <<>> => req[r].pc \in { "idle", "failed503", "closed" }
    /\ req[r].pc = "failed503"
       => /\ products = <<>>
          /\ req[r].trace = <<>>
          /\ req[r].scored = <<>> /\ req[r].candidates = <<>>
          /\ req[r].gwCalls = 0
          /\ req[r].base = EmptyData

\* a second request answered 503 after the first was answered 503 and closed
C21_Witness ==
  /\ products = <<>>
  /\ USE_LLM
  /\ req[1].pc = "closed"
  /\ req[2].pc = "failed503"

\* C22 as stated: no request in which scoring, selection or the merge of
\* the gateway response raised an error returns a result.
C22_InternalError500 ==
  \A r \in Reqs :
    (req[r].raised # "none" \/ req[r].mergeRaised) => ~Responded(r)

\* C22 as the code has it: an error raised in scoring or selection ends the
\* request in a 500 and no result is returned; an error raised in the merge
\* of the gateway response is caught, and the request goes on to return the
\* base result whole.
C22_InternalErrorOutcome ==
  \A r \in Reqs :
    /\ req[r].raised # "none"
       => /\ req[r].pc = "failed500"
          /\ req[r].gwCalls = 0
          /\ req[r].result = Serialised(EmptyData, <<>>)
    /\ req[r].mergeRaised
       => /\ req[r].pc \in { "llm_failed", "responded" }
          /\ req[r].response_data = req[r].base
          /\ Responded(r) => req[r].result.data = req[r].base

\* a request that returned its base result, two candidates long, after the
\* merge of a parsed gateway response raised
C22_Witness ==
  \E r \in Reqs :
    /\ Responded(r) /\ req[r].mergeRaised
    /\ ~req[r].llm_response.none
    /\ Len(req[r].result.curatedProducts) >= 2
    /\ req[r].result.data.confidence = Conf(800)

\* the request has been scored and its handler has not returned
Scored(r) == req[r].pc \in { "scored", "selected", "base_built" }

\* the five cities that have a per-city flag
FiveCities == { "sydney", "melbourne", "brisbane", "adelaide", "cairns" }

\* the product's flag for one of the five cities
CityFlag(product, city) ==
  CASE city = "sydney" -> product.sold_at_sydney
    [] city = "melbourne" -> product.sold_at_melbourne
    [] city = "brisbane" -> product.sold_at_brisbane
    [] city = "adelaide" -> product.sold_at_adelaide
    [] city = "cairns" -> product.sold_at_cairns

\* a is given and is a substring of b, letter case apart
IsSubstringCI(a, b) ==
  Truthy(a) /\ Truthy(b) /\ Contains(Lower(a), Lower(b))

\* C23: the locality score of a scored product is min(1, c + s + k + o):
\* c = 0.3 iff the resolved city is one of the five cities and the
\* product's flag for it is set, s = 0.2 iff the profile state is a
\* substring of the region, k = 0.2 iff the profile country is a substring
\* of the product country, o = 0.1 iff it is a substring of the origin.
C23_LocalityFormula ==
  \A r \in Reqs :
    Scored(r)
    => \A i \in DOMAIN products :
         products[i].visibility = "4"
         => LET product == products[i]
                location == ScorerLocation(req[r].profile)
                city == ResolvedCity(req[r].profile)
                c == IF city \in FiveCities /\ CityFlag(product, city) = 1
                       THEN 300 ELSE 0
                s == IF IsSubstringCI(location.state, product.region)
                       THEN 200 ELSE 0
                k == IF IsSubstringCI(location.country, product.country)
                       THEN 200 ELSE 0
                o == IF IsSubstringCI(location.country, product.origin)
                       THEN 100 ELSE 0
            IN  product.locality_score = Min(1000, c + s + k + o)

\* a product sold in Sydney and in Melbourne, of a region, a country and an
\* origin that all match, scored 0.3 + 0.2 + 0.2 + 0.1 for a Sydney profile
C23_Witness ==
  /\ Scored(1)
  /\ ResolvedCity(req[1].profile) = "sydney"
  /\ Len(products) = 1
  /\ products[1].sold_at_sydney = 1 /\ products[1].sold_at_melbourne = 1
  /\ products[1].region = "Hunter Valley, NSW"
  /\ products[1].origin = "South Australia"
  /\ products[1].locality_score = 800

\* the category of the first category level that holds a keyword stem
ResolvedCategory(product) ==
  LET levels == << product.category_level_1, product.category_level_2,
                   product.category_level_3 >>
      hits == { n \in 1..3 : /\ Truthy(levels[n])
                             /\ ClassifyLevel(Lower(levels[n])) # "none" }
  IN  IF hits = {} THEN "default"
      ELSE ClassifyLevel(Lower(levels[CHOOSE n \in hits :
                                        \A m \in hits : n <= m]))

\* C24: the category fitness of a scored product is min(1, base + f + b):
\* base is the weight of its resolved category in the table of the venue
\* type (the restaurant table for an unknown venue type), f = 0.2 iff venue
\* type and cuisine style are both fine dining and the category is
\* champagne or sparkling, b = 0.1 iff the product is a bundle.
C24_CategoryFitnessFormula ==
  \A r \in Reqs :
    Scored(r)
    => \A i \in DOMAIN products :
         products[i].visibility = "4"
         => LET product == products[i]
                venue == Lower(req[r].profile.venueType)
                cuisine == IF Truthy(req[r].profile.cuisineStyle)
                             THEN Lower(req[r].profile.cuisineStyle) ELSE ""
                table == IF venue \in { "restaurant", "fine dining", "bistro",
                                        "bar", "cafe" }
                           THEN venue_weights[venue]
                           ELSE venue_weights["restaurant"]
                category == ResolvedCategory(product)
                f == IF venue = "fine dining" /\ cuisine = "fine dining"
                        /\ category \in { "champagne", "sparkling" }
                       THEN 200 ELSE 0
                b == IF product.is_bundle THEN 100 ELSE 0
            IN  product.category_fitness = Min(1000, table[category] + f + b)

\* a bundle whose second category level names it sparkling, scored for a
\* fine dining venue and cuisine: 0.9 + 0.2 + 0.1, cut to 1.0
C24_Witness ==
  /\ Scored(1)
  /\ req[1].profile.venueType = "Fine Dining"
  /\ req[1].profile.cuisineStyle = "fine dining"
  /\ Len(products) = 1
  /\ products[1].category_level_1 = "Glassware"
  /\ products[1].category_level_2 = "Sparkling"
  /\ products[1].is_bundle
  /\ products[1].category_fitness = 1000

\* C25: a thousand times the composite score of a scored product is the
\* smaller of 1000 and 0.3 * locality + 0.4 * category fitness + 0.2 *
\* supplier boost + 0.1 * (0.1 for a bundle, else 0), each taken a thousand
\* times: the last term is 0.01 for a bundle and 0 otherwise.
C25_CompositeFormula ==
  \A r \in Reqs :
    Scored(r)
    => \A i \in DOMAIN products :
         products[i].visibility = "4"
         => LET product == products[i]
                rest == 300 * product.locality_score
                          + 400 * product.category_fitness
                          + 200 * product.supplier_boost
                last == IF product.is_bundle THEN 10000 ELSE 0
            IN  /\ 1000 * product.composite_score = Min(1000000, rest + last)
                /\ rest + last <= 1000000
                   => 1000 * product.composite_score - rest = last

\* a scored platinum wine bundle: 0.4 * 1.0 + 0.2 * 1.0 + 0.01
C25_Witness ==
  /\ Scored(1)
  /\ Len(products) = 1
  /\ products[1].is_bundle
  /\ products[1].category_fitness = 1000
  /\ products[1].supplier_boost = 1000
  /\ products[1].composite_score = 610

\* C26: the tier weight of the sort key of every scored product equals its
\* supplier boost, whatever the letter case of the tier and whether it is
\* missing or unknown.
C26_SortWeightIsBoost ==
  \A r \in Reqs :
    Scored(r)
    => \A i \in DOMAIN products :
         products[i].visibility = "4"
         => SortWeight(products[i]) = products[i].supplier_boost

\* the profile without any city, nested or flat
WithoutCity(profile) ==
  [ profile EXCEPT !.city = NoneV, !.location.city = NoneV ]

\* C27: the scorer and the handler resolve the same location for every
\* profile, the nested one when Profile.location is present and the flat
\* fields otherwise; a candidate is a local favourite of the base result
\* exactly when its locality score holds the city bonus, and the reasoning
\* names the city exactly when the scorer resolved one.
C27_OneLocationResolution ==
  \A r \in Reqs :
    req[r].pc = "base_built"
    => LET profile == req[r].profile
           nested == [ city |-> profile.location.city,
                       state |-> profile.location.state,
                       country |-> profile.location.country ]
           flat == [ city |-> profile.city, state |-> profile.state,
                     country |-> profile.country ]
       IN  /\ ScorerLocation(profile) = MainLocation(profile)
           /\ MainLocation(profile)
                = IF profile.location.present THEN nested ELSE flat
           /\ \A i \in Range(req[r].candidates) :
                (i \in Range(req[r].base.localFavoriteProducts))
                <=> ( products[i].locality_score
                        = 300 + calculate_locality_score(products[i],
                                                         WithoutCity(profile)) )
           /\ (\E k \in 1..Len(req[r].base.reasoning) :
                 req[r].base.reasoning[k].k = "prioritized_city")
              <=> ResolvedCity(profile) # ""

\* a base result for a profile whose nested location names Sydney and whose
\* flat city is Melbourne, over a product sold in both: the product is a
\* local favourite with one city bonus, and the reasoning names Sydney
C27_Witness ==
  /\ req[1].pc = "base_built"
  /\ req[1].profile.location.present
  /\ req[1].profile.location.city = "Sydney"
  /\ req[1].profile.city = "Melbourne"
  /\ Len(products) = 1
  /\ products[1].sold_at_sydney = 1 /\ products[1].sold_at_melbourne = 1
  /\ products[1].locality_score = 300
  /\ req[1].base.localFavoriteProducts = << 1 >>
  /\ \E k \in 1..Len(req[1].base.reasoning) :
       req[1].base.reasoning[k] = Line("prioritized_city", "Sydney", 0)

\* the result of a request for profile and maxProducts on the catalog as
\* loaded, with the gateway disabled
FreshResult(profile, maxProducts) ==
  LET fresh == Pristine(products)
      scoredCat == ScoredCatalog(fresh, profile)
      candidates == select_candidates(score_products(fresh, profile),
                                      TOP_K_PRESELECT, scoredCat)
      data == BaseResponse(profile, candidates, EffectiveMax(maxProducts),
                           0, scoredCat)
  IN  Serialised(data, scoredCat)

SansTimestamp(result) == [ result EXCEPT !.data.generatedAt = 0 ]

\* C28: with the gateway disabled, the result of a request (every field but
\* the timestamp, score fields of the records included) is the result the
\* same profile and maxProducts give on the freshly loaded catalog, whatever
\* requests were served before it.
C28_HistoryIndependence ==
  \A r \in Reqs :
    (~USE_LLM /\ Responded(r))
    => SansTimestamp(req[r].result)
         = SansTimestamp(FreshResult(req[r].profile, req[r].maxProducts))

\* the second request is answered, after the first was served and
\* discarded, with two records that hold scores
C28_Witness ==
  /\ ~USE_LLM
  /\ req[1].pc = "closed" /\ Responded(2)
  /\ Len(req[2].result.curatedProducts) >= 2
  /\ \A k \in 1..Len(req[2].result.curatedProducts) :
       req[2].result.curatedProducts[k].composite_score > 0
  /\ req[2].result.data.generatedAt > 0

\* the four lists of product records of a result, as catalog positions
ResultRecords(data) ==
  Range(data.curatedProducts) \cup Range(data.platinumProducts)
    \cup Range(data.bundledProducts) \cup Range(data.localFavoriteProducts)

\* C29: every product record of a returned result, built from the base
\* result or from the gateway's answer, is one of the request's candidates
\* and so a catalog product of visibility "4".
C29_RecordsAreCandidates ==
  \A r \in Reqs :
    Responded(r)
    => /\ \A i \in ResultRecords(req[r].result.data) :
            /\ i \in Range(req[r].candidates)
            /\ i \in DOMAIN products
            /\ products[i].visibility = "4"
       /\ \A record \in Range(req[r].result.curatedProducts)
                          \cup Range(req[r].result.platinumProducts)
                          \cup Range(req[r].result.bundledProducts)
                          \cup Range(req[r].result.localFavoriteProducts) :
            /\ record.visibility = "4"
            /\ \E i \in Range(req[r].candidates) : products[i] = record

\* a result derived from a gateway answer that names the hidden product
\* (sku S5) in its curated and platinum lists: the identifiers are kept, the
\* hidden product's record is in no list
C29_Witness ==
  /\ Responded(1) /\ PastGateway(1) /\ ~req[1].mergeRaised
  /\ Len(products) = 3 /\ products[2].id = "h1" /\ products[2].visibility = "1"
  /\ req[1].result.data.curatedProductIds = << "S5", "a2" >>
  /\ KeysOf(req[1].result.data.curatedProducts, products) = << "a2" >>
  /\ req[1].result.data.platinumSupplierProducts = << "S1", "S5", "XX" >>
  /\ KeysOf(req[1].result.data.platinumProducts, products) = << "S1" >>

\* the handler of request r is between the start of scoring and its return
InHandler(r) == req[r].pc \notin { "idle", "closed" }

\* C30: with the gateway disabled a handler runs from the start of scoring
\* to its response without another handler running in between: at most one
\* request is in its handler, the catalog holds that request's scores
\* throughout, and its result is the one of the request served alone.
C30_NoSuspensionSerial ==
  ~USE_LLM
  => /\ \A r, q \in Reqs : (InHandler(r) /\ InHandler(q)) => r = q
     /\ \A r \in Reqs :
          (InHandler(r) /\ products # <<>>)
          => /\ running = {r}
             /\ products = ScoredCatalog(Pristine(products), req[r].profile)
     /\ \A r \in Reqs :
          Responded(r)
          => /\ req[r].result.data = req[r].base
             /\ req[r].result = Serialised(req[r].base, products)
             /\ \A record \in Range(req[r].result.curatedProducts) :
                  OwnScores(record, req[r].profile)

\* the second request, sent while the first was handled, has built its
\* result after the first returned; the first has not been suspended
C30_Witness ==
  /\ ~USE_LLM
  /\ req[1].pc = "closed" /\ req[2].pc = "base_built"
  /\ running = {2}
  /\ Len(req[2].base.curatedProducts) >= 1
  /\ \E i \in DOMAIN products : products[i].composite_score > 0

====
